---- MODULE Spec2Model ----
(***************************************************************************)
(* Model of kvf's RenderDevice (lib/src/kvf.cpp): the per-frame            *)
(* next_frame / render cycle, the swapchain, the per-slot fences, command  *)
(* buffers and scratch allocators, the RenderPass layout barriers and the  *)
(* queue mutex.  The Vulkan runtime (GPU completion, acquire and present   *)
(* results, window resizes) is the nondeterministic environment.           *)
(***************************************************************************)
EXTENDS Integers, Sequences, FiniteSets, TLC

\* ------------------------------------------------------------ bounds ----
\* KVF_RESOURCE_BUFFERING is a build-time definition, static_asserted to lie
\* in 2..8 (constants.hpp:5-6).
RESOURCE_BUFFERING == 2
\* widths the window's framebuffer can take: 1..MaxWidth (or minimised)
MaxWidth == 2

\* RenderDeviceCreateInfo::sets_per_pool (caller input)
SetsPerPool == 2
\* descriptor pools one slot's allocator may grow to
MaxPools == 2
\* number of layouts / out_sets a caller passes to allocate_sets: 0..MaxLayouts
MaxLayouts == 2
\* scratch buffers the application creates in total
MaxBuffers == 3
\* byte sizes requested for scratch buffers: 0..MaxSize
MaxSize == 1
\* threads other than the render thread that submit to the queue
NumSubmitters == 2
\* largest image count a surface reports (minImageCount, maxImageCount)
MaxImageCount == 4
\* Rect coordinates and sizes are integers of magnitude up to MaxCoord
MaxCoord == 2
\* vk::DeviceSize is kept to this many bits
DeviceSizeBits == 2
\* largest size asked of a vma::Buffer
MaxCapacity == 2
\* largest number of bytes in one BufferWrite
MaxWrite == 2
\* largest side of an image whose mip levels are generated
MaxDim == 4
\* largest number of allocations made for one vma::Image
MaxAllocations == 2
\* largest number of codepoints an atlas is built for
MaxGlyphs == 3
\* number of threads that each own a Typeface
NumTypefaces == 2
MaxText == 3

Slots == 0 .. (RESOURCE_BUFFERING - 1)
min_images_v == RESOURCE_BUFFERING + 1
\* indices of the swapchain images (the swapchain is created with
\* min_images_v images)
ImageIndices == 0 .. (min_images_v - 1)
\* a minimised window has a zero width or height
Extents == {<<0, 1>>, <<1, 0>>} \cup {<<w, 1>> : w \in 1 .. MaxWidth}

\* no slot (a null m_current_cmd, no fence or semaphore): one past the slots
NoSlot == RESOURCE_BUFFERING
\* no image index held (an empty optional): one past the image indices
NoImage == min_images_v
NoMode == "none"
NoSwapchain == [created |-> FALSE, imageExtent |-> <<0, 0>>, presentMode |-> "none",
                minImageCount |-> 0]
\* vk::SurfaceCapabilitiesKHR: the image counts a surface can report; a
\* maxImageCount of 0 stands for no limit
SurfaceCapabilities ==
    [minImageCount : 1 .. MaxImageCount, maxImageCount : 0 .. MaxImageCount]
\* the capabilities of the surface the device was constructed for: at least
\* two images, no upper limit
surface_capabilities == [minImageCount |-> 2, maxImageCount |-> 0]
\* no vk::PresentInfoKHR built: no image index, no wait semaphore
NoPresentInfo == [image |-> NoImage, wait |-> NoImage]
\* the threads that own a Typeface, and the FreeType library instances
\* there can be at a time (an instance that is done gives its place up)
FaceThreads == 1 .. NumTypefaces
LibIds == 1 .. NumTypefaces
\* a Typeface without Impl, its thread outside any call: no font bytes are
\* allocated and no face is open. Faces and font byte buffers are numbered
\* 1 and 2 in turn, face k being created from buffer k
NoTypeface == [pc |-> "idle", m_impl |-> FALSE, lib |-> 0, font |-> 0, face |-> 0,
               has_kerning |-> FALSE, param |-> 0, open |-> {}, live |-> {}]
\* a default-constructed vma::Buffer and vma::Image
NoBuffer == [m_api |-> FALSE, m_buffer |-> 0, m_size |-> 0, m_capacity |-> 0,
             type |-> "Host", bytes |-> <<>>, oob |-> FALSE]
NoImageObject == [m_api |-> FALSE, m_image |-> 0, m_extent |-> <<0, 0>>,
                  m_mip_levels |-> 1, m_layout |-> "Undefined", mip_mapped |-> FALSE,
                  layers |-> 1, levels |-> <<>>]
\* threads: the one that calls next_frame / render, and the others
NoThread == <<"none", 0>>
RenderThread == <<"render", 0>>
Submitters == {<<"submitter", t>> : t \in 1 .. NumSubmitters}

present_modes_v == {"Fifo", "FifoRelaxed", "Mailbox", "Immediate"}
\* modes a caller passes to set_present_mode
DesiredModes == {"Fifo", "Mailbox", "Immediate"}
\* the surfaces considered: what getSurfacePresentModesKHR returns
\* (eSharedDemandRefresh is outside present_modes_v)
SurfaceModes == {{"Fifo"}, {"Fifo", "Mailbox", "eSharedDemandRefresh"}}

\* buffer usages the application asks scratch buffers for
Usages == {"eUniformBuffer", "eStorageBuffer"}

\* RenderTarget arguments of render(): no image, or an application image
\* that is in ShaderReadOnlyOptimal (e.g. a Texture)
NullImage == <<"null", 0, 0>>
AppImage == <<"app", 0, 0>>
NullTarget == [image |-> NullImage]
AppTarget == [image |-> AppImage]
\* a handle whose image has been destroyed
DanglingImage == <<"destroyed", 0, 0>>
\* sample counts a RenderPass is constructed with
SampleCounts == {"e1", "e4"}
\* no RenderPass has been constructed
NoSamples == "none"
StoreOps == {"eDontCare", "eStore"}
\* how many framebuffers set_color_target / set_depth_target get through:
\* the first image creation throws, or none does
CreatedCounts == {0, RESOURCE_BUFFERING}
\* a default-constructed vma::Image
NoFramebufferImage == [image |-> NullImage, extent |-> <<0, 0>>]

VARIABLES
    fb,                  \* glfwGetFramebufferSize of the window
    m_present_modes,     \* RenderDevice::Impl::m_present_modes
    m_swapchain,         \* struct Swapchain: m_info, m_swapchain, m_image_index
    m_syncs,             \* Buffered<Sync>: drawn (fence), draw (semaphore)
    m_command_buffers,   \* Buffered<RenderCmd>: recording flag, Vulkan state
    m_imgui,             \* DearImGui::m_state
    m_backbuffer_layout, \* tracked layout of the backbuffer
    m_frame_index,
    m_current_cmd,       \* slot of *m_current_cmd, or NoSlot for nullptr
    should_render_imgui,
    m_queue_mutex,       \* owner of the queue mutex, or NoThread
    submitted,           \* submissions the queue has not completed yet
    pc,                  \* position of the render thread inside render()
    frame,               \* render()'s frame argument
    acquired,            \* local of render(): result of acquire_next_image
    present_sucess,      \* local of render()
    barriers,            \* backbuffer barriers recorded by the current render()
    si,                  \* local of render(): the SubmitInfo2 it builds
    framebuffer_extent,  \* local of render(): the extent read at its start
    image_layout,        \* layout each image is in, in recording order
    m_descriptor_allocators, \* Buffered<DescriptorAllocator>: m_pools, m_index
    m_buffer_allocators, \* Buffered<BufferAllocator>: per usage buffers, index
    scratch,             \* the vma::Buffer objects created: m_size, m_capacity
    handed,              \* per slot: buffers returned since the slot's last reset
    ever,                \* per frame index: buffers ever returned for it
    lastCall,            \* the API call made last and how it ended
    m_samples,           \* RenderPass::m_samples
    m_framebuffers,      \* RenderPass: Buffered<Framebuffer> color, resolve, depth
    m_command_buffer,    \* RenderPass: slot of the command buffer, or NoSlot
    m_targets,           \* RenderPass::m_targets: image handles
    depth_store_op,      \* RenderPass::depth_store_op
    m_extent,            \* RenderPass::m_extent
    spc,                 \* per submitter thread: position and kind of call
    signal,              \* render(): the semaphore given to acquire_next_image
    pi,                  \* Swapchain::present: the PresentInfoKHR it builds
    imgui_frame,         \* Dear ImGui's context: is a frame begun, misuse seen
    rect_call,           \* the last call of a Rect function and its result
    vma_buffer,          \* a vma::Buffer the application owns
    vma_image,           \* a vma::Image the application owns
    vma_call,            \* the last call on either and its result
    impl,                \* the RenderDevice::Impl object: which members hold
                         \* objects, and what has been destroyed so far
    ttf_call,            \* the last call of a ttf function and its result
    typefaces,           \* each thread's Typeface, its font bytes and faces
    g_data,              \* ttf's global: the weak_ptr to the Lib and the mutex
    ft_libs              \* the FreeType library instances

vars == <<fb, m_present_modes, m_swapchain, m_syncs, m_command_buffers, m_imgui,
          m_backbuffer_layout, m_frame_index, m_current_cmd, should_render_imgui,
          m_queue_mutex, submitted, pc, frame, acquired, present_sucess,
          barriers, si, framebuffer_extent, image_layout, m_descriptor_allocators,
          m_buffer_allocators, scratch, handed, ever, lastCall, m_samples,
          m_framebuffers, m_command_buffer, m_targets, depth_store_op, spc,
          signal, pi, imgui_frame, rect_call, vma_buffer, vma_image, vma_call, impl, ttf_call, typefaces, g_data, ft_libs>>

allocVars == <<m_descriptor_allocators, m_buffer_allocators, scratch, handed, ever>>

vmaVars == <<vma_buffer, vma_image, vma_call>>

ttfVars == <<ttf_call, typefaces, g_data, ft_libs>>

objectVars == <<impl, ttfVars>>

passVars == <<m_samples, m_framebuffers, m_command_buffer, m_targets,
              depth_store_op, m_extent>>

\* ----------------------------------------------------------- helpers ----
IsZero(extent) == extent[1] = 0 \/ extent[2] = 0

\* mutant: the surface's modes are taken unfiltered
filter_modes_unfiltered(all) == all

\* filter_modes: the surface's modes that are in present_modes_v
filter_modes(all) == {in \in all : in \in present_modes_v}

optimal_present_mode(present_modes) ==
    IF "FifoRelaxed" \in present_modes THEN "FifoRelaxed"
    ELSE IF "Fifo" \in present_modes THEN "Fifo"
    ELSE IF "Mailbox" \in present_modes THEN "Mailbox"
    ELSE "Fifo"

\* the surface's currentExtent follows the window, so the image extent is
\* the framebuffer extent
get_image_extent(framebuffer) == framebuffer

Max(a, b) == IF a >= b THEN a ELSE b
\* std::clamp(v, lo, hi)
clamp(v, lo, hi) == IF v < lo THEN lo ELSE IF hi < v THEN hi ELSE v

\* mutant: the surface's maximum is not taken into account
get_image_count_unlimited(caps) == Max(min_images_v, caps.minImageCount)

\* Swapchain::get_image_count
get_image_count(caps) ==
    IF caps.maxImageCount < caps.minImageCount
    THEN Max(min_images_v, caps.minImageCount)
    ELSE clamp(min_images_v, caps.minImageCount, caps.maxImageCount)

\* what the driver does for recreate: it creates the swapchain and returns
\* its images, returns a null swapchain, or fails to return the images
DriverResults == {"ok", "no_swapchain", "no_images"}

\* Swapchain::recreate(framebuffer, present_mode) on a surface with the
\* capabilities caps and with the driver's result: the Swapchain afterwards
\* and how the call ended ("return" early for a zero extent, "throw"
\* Error, or "ok")
Swapchain_recreate_surface(sc, caps, framebuffer, present_mode, driver) ==
    IF IsZero(framebuffer) THEN [sc |-> sc, ret |-> "return"]
    ELSE LET info == [imageExtent |-> get_image_extent(framebuffer),
                      presentMode |-> IF present_mode # NoMode THEN present_mode
                                      ELSE sc.m_info.presentMode,
                      minImageCount |-> get_image_count(caps)]
             swapchain == [created |-> TRUE,
                           imageExtent |-> info.imageExtent,
                           presentMode |-> info.presentMode,
                           minImageCount |-> info.minImageCount]
         IN IF info.minImageCount <= RESOURCE_BUFFERING
            THEN \* line 320; m_info is already written
                 [sc |-> [sc EXCEPT !.m_info = info], ret |-> "throw"]
            ELSE IF driver = "no_swapchain"
            THEN \* line 326: m_swapchain holds the null handle
                 [sc |-> [sc EXCEPT !.m_info = info, !.m_swapchain = NoSwapchain],
                  ret |-> "throw"]
            ELSE IF driver = "no_images"
            THEN \* lines 329, 332: the new swapchain is in place, the image
                 \* index is not reset
                 [sc |-> [sc EXCEPT !.m_info = info, !.m_swapchain = swapchain],
                  ret |-> "throw"]
            ELSE [sc |-> [m_info |-> info, m_swapchain |-> swapchain,
                          m_image_index |-> NoImage],
                  ret |-> "ok"]

\* Swapchain::recreate on the device's surface, whose capabilities allow
\* min_images_v images, with a driver that creates the swapchain: the
\* Swapchain afterwards
Swapchain_recreate(sc, framebuffer, present_mode) ==
    Swapchain_recreate_surface(sc, surface_capabilities, framebuffer, present_mode,
                               "ok").sc

\* mutant: the fence is not waited for
wait_for_fence_skipped(syncs, i) == TRUE

\* util::wait_for_fence on the fence of slot i
wait_for_fence(syncs, i) == syncs[i].drawn

\* the state of a vk::CommandBuffer after vkBeginCommandBuffer,
\* vkEndCommandBuffer and a queue submission; a call the buffer's state
\* does not allow leaves it "misused"
vkBeginCommandBuffer(vk) ==
    IF vk \in {"initial", "executable"} THEN "recording" ELSE "misused"
vkEndCommandBuffer(vk) == IF vk = "recording" THEN "executable" ELSE "misused"
vkQueueSubmit2(vk) == IF vk = "executable" THEN "pending" ELSE "misused"

\* mutant: end leaves the command buffer as it is
RenderCmd_end_skipped(c) == c

\* RenderCmd::end
RenderCmd_end(c) ==
    IF ~c.recording THEN c
    ELSE [recording |-> FALSE, vk |-> vkEndCommandBuffer(c.vk)]

\* mutant: begin does not end a recording first
RenderCmd_begin_without_end(c) ==
    [recording |-> TRUE, vk |-> vkBeginCommandBuffer(c.vk)]

\* RenderCmd::begin
RenderCmd_begin(c) ==
    LET ended == IF c.recording THEN RenderCmd_end(c) ELSE c
    IN [recording |-> TRUE, vk |-> vkBeginCommandBuffer(ended.vk)]

\* Dear ImGui's context: ImGui::CreateContext, ImGui::NewFrame and
\* ImGui::Render (which ends the frame); misuse records a frame begun
\* while one is open or ended when none is open
ImGui_CreateContext == [open |-> FALSE, misuse |-> FALSE]
ImGui_NewFrame(g) == [open |-> TRUE, misuse |-> g.misuse \/ g.open]
ImGui_Render(g) == [open |-> FALSE, misuse |-> g.misuse \/ ~g.open]

\* DearImGui::new_frame / end_frame: m_state afterwards
DearImGui_new_frame(s) == "eEndFrame"
DearImGui_end_frame(s) == "eNewFrame"

\* mutant: end_frame does not look at m_state
DearImGui_end_frame_context_unguarded(s, g) == ImGui_Render(g)

\* DearImGui::end_frame: the ImGui context afterwards
DearImGui_end_frame_context(s, g) ==
    IF s = "eNewFrame" THEN g ELSE ImGui_Render(g)

\* DearImGui::new_frame: the ImGui context afterwards
DearImGui_new_frame_context(s, g) ==
    ImGui_NewFrame(IF s = "eEndFrame" THEN DearImGui_end_frame_context(s, g) ELSE g)

\* mutant: the tracked layout is not updated
transition_backbuffer_untracked(layout, target) ==
    [barrier |-> [oldLayout |-> layout, newLayout |-> target], layout |-> layout]

\* transition_backbuffer: the barrier returned and the tracked layout after
transition_backbuffer(layout, target) ==
    [barrier |-> [oldLayout |-> layout, newLayout |-> target], layout |-> target]

\* blit_to_backbuffer: the barriers it records for the frame image
blit_to_backbuffer(image) ==
    <<[image |-> image, oldLayout |-> "ShaderReadOnlyOptimal", newLayout |-> "TransferSrcOptimal"],
      [image |-> image, oldLayout |-> "TransferSrcOptimal", newLayout |-> "ShaderReadOnlyOptimal"]>>

\* the layouts after a list of image barriers has been recorded; a barrier
\* on an image that no longer exists leaves the others alone
RECURSIVE record_barriers(_, _)
record_barriers(layouts, bs) ==
    IF bs = <<>> THEN layouts
    ELSE record_barriers(
            IF Head(bs).image \in DOMAIN layouts
            THEN [layouts EXCEPT ![Head(bs).image] = Head(bs).newLayout]
            ELSE layouts, Tail(bs))

\* transition_backbuffer: one of its two KLIB_ASSERT(false) defaults is
\* reached
transition_backbuffer_asserts(layout, target) ==
    \/ layout \notin {"Undefined", "PresentSrcKHR", "TransferDstOptimal", "AttachmentOptimal"}
    \/ target \notin {"TransferDstOptimal", "AttachmentOptimal", "PresentSrcKHR"}

\* mutant: ImGui is rendered with the backbuffer in ColorAttachmentOptimal
RenderBackbuffer_color_attachment(has_frame, imgui) ==
    LET t0 == [bs |-> <<>>, layout |-> "Undefined"]
        step(t, target) ==
            LET r == transition_backbuffer(t.layout, target)
            IN [bs |-> Append(t.bs, r.barrier), layout |-> r.layout]
        t1 == IF has_frame THEN step(t0, "TransferDstOptimal") ELSE t0
        t2 == IF imgui THEN step(t1, "ColorAttachmentOptimal") ELSE t1
    IN step(t2, "PresentSrcKHR")

\* the backbuffer barriers render() records, given the frame argument and
\* should_render_imgui: the list of barriers and the tracked layout after
RenderBackbuffer(has_frame, imgui) ==
    LET t0 == [bs |-> <<>>, layout |-> "Undefined"]
        step(t, target) ==
            LET r == transition_backbuffer(t.layout, target)
            IN [bs |-> Append(t.bs, r.barrier), layout |-> r.layout]
        t1 == IF has_frame THEN step(t0, "TransferDstOptimal") ELSE t0
        t2 == IF imgui THEN step(t1, "AttachmentOptimal") ELSE t1
    IN step(t2, "PresentSrcKHR")

\* a slot has a submission the queue has not completed
Pending(i) == \E s \in submitted : s.cmd = i
\* another submission of the same command buffer is still in the queue
Pending2(s) == \E t \in submitted \ {s} : t.cmd = s.cmd

\* DescriptorAllocator::reset
DescriptorAllocator_reset(a) ==
    [a EXCEPT !.m_pools = [p \in 1 .. Len(a.m_pools) |-> 0], !.m_index = 0]

\* DescriptorAllocator::get_pool: pools are created up to m_index
DescriptorAllocator_get_pool(a) ==
    IF a.m_index >= Len(a.m_pools)
    THEN [a EXCEPT !.m_pools = a.m_pools \o [k \in 1 .. (a.m_index + 1 - Len(a.m_pools)) |-> 0]]
    ELSE a

\* results vkAllocateDescriptorSets can give for n sets from the current
\* pool: success needs room for n sets; the pool can also run out of
\* descriptors of a type, and the host can run out of memory
AllocateResults(a, n) ==
    LET b == DescriptorAllocator_get_pool(a)
    IN (IF b.m_pools[b.m_index + 1] + n <= a.sets_per_pool THEN {"eSuccess"} ELSE {})
       \cup {"eErrorOutOfPoolMemory", "eErrorOutOfHostMemory"}

\* the assertion at the top of DescriptorAllocator::allocate
DescriptorAllocator_allocate_asserts(a) ==
    a.device /\ a.pool_sizes # 0 /\ a.sets_per_pool > 0

\* DescriptorAllocator::try_allocate with the result the driver gives
DescriptorAllocator_try_allocate(a, n, result) ==
    LET b == DescriptorAllocator_get_pool(a)
    IN IF result = "eSuccess"
       THEN [b EXCEPT !.m_pools[b.m_index + 1] = @ + n]
       ELSE b

\* mutant: every failure of the first try moves on to the next pool
DescriptorAllocator_allocate_advance_always(a, n_out, n_layouts, r1, r2) ==
    IF n_layouts = 0 \/ n_out # n_layouts THEN [a |-> a, ret |-> FALSE]
    ELSE LET a1 == DescriptorAllocator_try_allocate(a, n_layouts, r1)
         IN IF r1 = "eSuccess" THEN [a |-> a1, ret |-> TRUE]
            ELSE LET a2 == [a1 EXCEPT !.m_index = @ + 1]
                 IN [a |-> DescriptorAllocator_try_allocate(a2, n_layouts, r2),
                     ret |-> (r2 = "eSuccess")]

\* DescriptorAllocator::allocate(out_sets, layouts) with the results r1, r2
\* of the first and the second try
DescriptorAllocator_allocate(a, n_out, n_layouts, r1, r2) ==
    IF n_layouts = 0 \/ n_out # n_layouts THEN [a |-> a, ret |-> FALSE]
    ELSE LET a1 == DescriptorAllocator_try_allocate(a, n_layouts, r1)
         IN IF r1 = "eSuccess" THEN [a |-> a1, ret |-> TRUE]
            ELSE IF r1 = "eErrorOutOfPoolMemory"
            THEN LET a2 == [a1 EXCEPT !.m_index = @ + 1]
                 IN [a |-> DescriptorAllocator_try_allocate(a2, n_layouts, r2),
                     ret |-> (r2 = "eSuccess")]
            ELSE [a |-> a1, ret |-> FALSE]

\* mutant: next_frame resets the pools of every slot
next_frame_reset_all_descriptors(allocators, i) ==
    [j \in DOMAIN allocators |-> DescriptorAllocator_reset(allocators[j])]

\* the allocators of all slots after next_frame's reset for slot i
next_frame_reset_descriptors(allocators, i) ==
    [allocators EXCEPT ![i] = DescriptorAllocator_reset(@)]

\* BufferAllocator::reset
BufferAllocator_reset(b) == [u \in DOMAIN b |-> [b[u] EXCEPT !.index = 0]]

\* ensure_positive
ensure_positive(n) == IF n <= 0 THEN 1 ELSE n

\* vma::Buffer::resize(size) on an existing buffer; ok is the result of
\* vmaCreateBuffer when a larger buffer has to be created
Buffer_resize(buf, size, ok) ==
    LET sz == ensure_positive(size)
    IN IF buf.m_capacity >= sz THEN [buf EXCEPT !.m_size = sz]
       ELSE IF ok THEN [m_size |-> sz, m_capacity |-> sz]
       ELSE buf

\* mutant: the pool's index is not advanced past the buffer returned
BufferAllocator_allocate_same(b, bufs, usage, size, ok) ==
    LET pool == b[usage]
        create == pool.index >= Len(pool.buffers)
        index == IF create THEN Len(pool.buffers) ELSE pool.index
        bufs1 == IF create
                 THEN Append(bufs, [m_size |-> ensure_positive(size),
                                    m_capacity |-> ensure_positive(size)])
                 ELSE bufs
        buffers1 == IF create THEN Append(pool.buffers, Len(bufs1)) ELSE pool.buffers
        ret == buffers1[index + 1]
    IN IF create /\ ~ok
       THEN [b |-> [b EXCEPT ![usage].index = index], bufs |-> bufs, ret |-> 0]
       ELSE [b |-> [b EXCEPT ![usage] = [buffers |-> buffers1, index |-> index]],
             bufs |-> bufs1, ret |-> ret]

\* BufferAllocator::allocate(api, usage, size): the allocator and Buffer
\* objects afterwards and the Buffer returned (bufs holds every Buffer
\* object created so far, a new one gets the next index)
BufferAllocator_allocate(b, bufs, usage, size, ok) ==
    LET pool == b[usage]
        create == pool.index >= Len(pool.buffers)
        index == IF create THEN Len(pool.buffers) ELSE pool.index
        bufs1 == IF create
                 THEN Append(bufs, [m_size |-> ensure_positive(size),
                                    m_capacity |-> ensure_positive(size)])
                 ELSE bufs
        buffers1 == IF create THEN Append(pool.buffers, Len(bufs1)) ELSE pool.buffers
        ret == buffers1[index + 1]
        bufs2 == IF size > 0 THEN [bufs1 EXCEPT ![ret] = Buffer_resize(@, size, ok)]
                 ELSE bufs1
    IN IF create /\ ~ok
       THEN \* the Buffer constructor throws: nothing is pushed or returned
            [b |-> [b EXCEPT ![usage].index = index], bufs |-> bufs, ret |-> 0]
       ELSE [b |-> [b EXCEPT ![usage] = [buffers |-> buffers1, index |-> index + 1]],
             bufs |-> bufs2, ret |-> ret]

\* RenderDevice::Impl::allocate_scratch_buffer picks the allocator of the
\* current frame index
scratch_slot(frame_index) == frame_index

\* render()'s locals before and after a call
NoSubmitInfo == [cmd |-> NoSlot, wait |-> NoSlot, signal |-> NoImage]

\* -------------------------------------------------------------- Init ----
\* RenderDeviceCreateInfo as a caller can fill it: the number of
\* custom_pool_sizes and sets_per_pool
RenderDeviceCreateInfos == [custom_pool_sizes : 0 .. 1, sets_per_pool : 0 .. SetsPerPool]
\* the default RenderDeviceCreateInfo, sets_per_pool_v being SetsPerPool
RenderDeviceCreateInfo == [custom_pool_sizes |-> 0, sets_per_pool |-> SetsPerPool]

\* RenderDevice::Impl::init_descriptor_allocators: empty pool sizes are
\* replaced by three default ones; sets_per_pool is taken as given
init_descriptor_allocators(create_info) ==
    LET m_pool_sizes == IF create_info.custom_pool_sizes = 0 THEN 3
                        ELSE create_info.custom_pool_sizes
    IN [i \in Slots |-> [device |-> TRUE, pool_sizes |-> m_pool_sizes,
                         sets_per_pool |-> create_info.sets_per_pool,
                         m_pools |-> <<>>, m_index |-> 0]]

\* mutant: the DeviceBlock is declared before the members it guards
ImplMembers_block_first ==
    <<"m_device_block", "m_instance", "m_surface", "m_device", "m_swapchain", "m_syncs",
      "m_command_pool", "m_imgui", "m_allocator", "m_descriptor_allocators",
      "m_buffer_allocators">>

\* the members of RenderDevice::Impl that own objects, in the order of their
\* declaration; they are destroyed in the reverse order
ImplMembers ==
    <<"m_instance", "m_surface", "m_device", "m_swapchain", "m_syncs",
      "m_command_pool", "m_imgui", "m_allocator", "m_descriptor_allocators",
      "m_buffer_allocators", "m_device_block">>

\* the steps of Impl's constructor in which a member comes to hold an
\* object, in the order the constructor takes them (select_gpu gives none)
CtorSteps ==
    <<"m_instance", "m_surface", "select_gpu", "m_device", "m_device_block",
      "m_swapchain", "m_command_pool", "m_syncs", "m_imgui", "m_allocator">>

\* a step of the constructor succeeds, throws, or throws when the member
\* already holds an object (the swapchain whose images are not returned,
\* the first semaphore when the next cannot be created)
CtorOutcomes(step) ==
    IF step \in {"m_swapchain", "m_syncs"} THEN {"ok", "throw", "throw_holding"}
    ELSE {"ok", "throw"}

\* what the members destroyed from a device are
DeviceOwned ==
    {"m_swapchain", "m_syncs", "m_command_pool", "m_imgui", "m_allocator",
     "m_descriptor_allocators", "m_buffer_allocators"}

\* Impl before its constructor's body, and Impl constructed: no descriptor
\* pool and no scratch buffer has been created yet
ImplUnconstructed ==
    [phase |-> "constructing", step |-> 1, holds |-> {}, cursor |-> 0, events |-> <<>>]
ImplConstructed ==
    [phase |-> "constructed", step |-> Len(CtorSteps) + 1,
     holds |-> {CtorSteps[k] : k \in 1 .. Len(CtorSteps)} \ {"select_gpu"},
     cursor |-> 0, events |-> <<>>]

\* State after RenderDevice::Impl's constructor: create_swapchain with the
\* window's framebuffer extent, fences created signalled, ImGui frame begun.
Impl(create_info) ==
    /\ fb \in Extents
    /\ \E surface \in SurfaceModes :
         /\ m_present_modes = filter_modes(surface)
         /\ m_swapchain = Swapchain_recreate(
                [m_info |-> [imageExtent |-> <<0, 0>>,
                             presentMode |-> optimal_present_mode(filter_modes(surface)),
                             minImageCount |-> 0],
                 m_swapchain |-> NoSwapchain,
                 m_image_index |-> NoImage], fb, NoMode)
    /\ m_syncs = [i \in Slots |-> [drawn |-> TRUE, draw |-> FALSE]]
    /\ m_command_buffers = [i \in Slots |-> [recording |-> FALSE, vk |-> "initial"]]
    /\ m_imgui = DearImGui_new_frame("eNewFrame")
    /\ m_backbuffer_layout = "Undefined"
    /\ m_frame_index = 0
    /\ m_current_cmd = NoSlot
    /\ should_render_imgui = TRUE
    /\ m_queue_mutex = NoThread
    /\ submitted = {}
    /\ pc = "idle"
    /\ frame = NullTarget
    /\ acquired = FALSE
    /\ present_sucess = FALSE
    /\ barriers = <<>>
    /\ si = NoSubmitInfo
    /\ framebuffer_extent = <<0, 0>>
    /\ image_layout = [img \in {AppImage} |-> "ShaderReadOnlyOptimal"]
    /\ m_descriptor_allocators = init_descriptor_allocators(create_info)
    /\ m_buffer_allocators =
         [i \in Slots |-> [u \in Usages |-> [buffers |-> <<>>, index |-> 0]]]
    /\ scratch = <<>>
    /\ handed = [i \in Slots |-> <<>>]
    /\ ever = [i \in Slots |-> {}]
    /\ lastCall = [op |-> "ctor", arg |-> NoMode, ret |-> "ok", val |-> 0]
    /\ m_samples = NoSamples
    /\ m_framebuffers = [i \in Slots |-> [color |-> NoFramebufferImage,
                                          resolve |-> NoFramebufferImage,
                                          depth |-> NoFramebufferImage]]
    /\ m_command_buffer = NoSlot
    /\ m_targets = [color |-> NullImage, resolve |-> NullImage, depth |-> NullImage]
    /\ depth_store_op = "eDontCare"
    /\ m_extent = <<0, 0>>
    /\ spc = [t \in Submitters |-> [pc |-> "idle", and_wait |-> FALSE]]
    /\ signal = NoSlot
    /\ pi = NoPresentInfo
    /\ imgui_frame = ImGui_NewFrame(ImGui_CreateContext)
    /\ rect_call = [op |-> "none"]
    /\ vma_buffer = NoBuffer
    /\ vma_image = NoImageObject
    /\ vma_call = [op |-> "none"]
    /\ ttf_call = [op |-> "none", ret |-> "none"]
    /\ typefaces = [t \in FaceThreads |-> NoTypeface]
    /\ g_data = [lib |-> 0, mutex |-> 0]
    /\ ft_libs = [l \in LibIds |-> [state |-> "none", refs |-> 0]]

\* the device constructed from the default RenderDeviceCreateInfo
Init == Impl(RenderDeviceCreateInfo) /\ impl = ImplConstructed

\* the device constructed from any RenderDeviceCreateInfo
CtorInit ==
    /\ \E create_info \in RenderDeviceCreateInfos : Impl(create_info)
    /\ impl = ImplConstructed

\* ----------------------------------------------------------- actions ----
Call(op, arg, ret, val) == [op |-> op, arg |-> arg, ret |-> ret, val |-> val]

renderLocals == <<frame, acquired, present_sucess, barriers, si, framebuffer_extent,
                  signal, pi>>

\* render() returns or throws: its locals go out of scope
RenderReturn ==
    /\ pc' = "idle"
    /\ frame' = NullTarget
    /\ acquired' = FALSE
    /\ present_sucess' = FALSE
    /\ barriers' = <<>>
    /\ si' = NoSubmitInfo
    /\ framebuffer_extent' = <<0, 0>>
    /\ signal' = NoSlot
    /\ pi' = NoPresentInfo

\* Swapchain::recreate waits for the device to be idle (m_device.waitIdle)
\* unless it returns early for a zero extent
recreate_ready(framebuffer) == IsZero(framebuffer) \/ submitted = {}

\* RenderDevice::Impl::next_frame
NextFrame ==
    /\ pc = "idle"
    /\ LET i == m_frame_index IN
       \/ /\ wait_for_fence(m_syncs, i)
          /\ m_imgui' = DearImGui_new_frame(m_imgui)
          /\ imgui_frame' = DearImGui_new_frame_context(m_imgui, imgui_frame)
          /\ m_descriptor_allocators' = next_frame_reset_descriptors(m_descriptor_allocators, i)
          /\ m_buffer_allocators' = [m_buffer_allocators EXCEPT ![i] = BufferAllocator_reset(@)]
          /\ handed' = [handed EXCEPT ![i] = <<>>]
          /\ m_current_cmd' = i
          /\ m_command_buffers' = [m_command_buffers EXCEPT ![i] = RenderCmd_begin(@)]
          /\ lastCall' = Call("next_frame", NoMode, "ok", 0)
          /\ UNCHANGED <<scratch, ever>>
       \/ \* the fence wait times out
          /\ ~wait_for_fence(m_syncs, i)
          /\ lastCall' = Call("next_frame", NoMode, "error", 0)
          /\ UNCHANGED <<m_imgui, imgui_frame, m_current_cmd, m_command_buffers, allocVars>>
    /\ UNCHANGED <<passVars, spc, rect_call, vmaVars, objectVars>>
    /\ UNCHANGED <<fb, m_present_modes, m_swapchain, m_syncs, m_backbuffer_layout,
                   m_frame_index, should_render_imgui, m_queue_mutex, submitted, pc,
                   renderLocals, image_layout>>

\* render(), lines 710-716: up to the fence wait
RenderBegin(f) ==
    /\ pc = "idle"
    /\ m_imgui' = DearImGui_end_frame(m_imgui)
    /\ imgui_frame' = DearImGui_end_frame_context(m_imgui, imgui_frame)
    /\ IF m_current_cmd = NoSlot
       THEN /\ lastCall' = Call("render", NoMode, "no_cmd", 0)
            /\ UNCHANGED <<pc, m_swapchain, frame, framebuffer_extent>>
       ELSE IF IsZero(fb)
       THEN /\ lastCall' = Call("render", NoMode, "zero_extent", 0)
            /\ UNCHANGED <<pc, m_swapchain, frame, framebuffer_extent>>
       ELSE /\ m_swapchain.m_info.imageExtent # fb => recreate_ready(fb)
            /\ m_swapchain' = IF m_swapchain.m_info.imageExtent # fb
                              THEN Swapchain_recreate(m_swapchain, fb, NoMode)
                              ELSE m_swapchain
            /\ framebuffer_extent' = fb
            /\ frame' = f
            /\ pc' = "r_wait"
            /\ lastCall' = Call("render", NoMode, "running", 0)
    /\ UNCHANGED <<passVars, spc, rect_call, vmaVars, objectVars>>
    /\ UNCHANGED <<fb, m_present_modes, m_syncs, m_command_buffers, m_backbuffer_layout,
                   m_frame_index, m_current_cmd, should_render_imgui, m_queue_mutex,
                   submitted, acquired, present_sucess, barriers, si, signal, pi,
                   image_layout, allocVars>>

\* render(), lines 718-719: wait for the slot's fence
RenderWait ==
    /\ pc = "r_wait"
    /\ \/ /\ wait_for_fence(m_syncs, m_frame_index)
          /\ pc' = "r_lock"
          /\ UNCHANGED <<renderLocals, lastCall>>
       \/ /\ ~wait_for_fence(m_syncs, m_frame_index)
          /\ RenderReturn
          /\ lastCall' = Call("render", NoMode, "error", 0)
    /\ UNCHANGED <<passVars, spc, rect_call, vmaVars, objectVars>>
    /\ UNCHANGED <<fb, m_present_modes, m_swapchain, m_syncs, m_command_buffers, m_imgui, imgui_frame,
                   m_backbuffer_layout, m_frame_index, m_current_cmd, should_render_imgui,
                   m_queue_mutex, submitted, image_layout, allocVars>>

\* mutant: a lock is taken whoever holds the mutex
mutex_ignored(mutex) == TRUE

\* std::unique_lock / scoped_lock on m_queue_mutex: lock() blocks until the
\* mutex is free
mutex_free(mutex) == mutex = NoThread

\* render(), line 721: lock the queue mutex
RenderLock ==
    /\ pc = "r_lock"
    /\ mutex_free(m_queue_mutex)
    /\ m_queue_mutex' = RenderThread
    /\ pc' = "r_acquire"
    /\ UNCHANGED <<passVars, spc, rect_call, vmaVars, objectVars>>
    /\ UNCHANGED <<fb, m_present_modes, m_swapchain, m_syncs, m_command_buffers, m_imgui, imgui_frame,
                   m_backbuffer_layout, m_frame_index, m_current_cmd, should_render_imgui,
                   submitted, renderLocals, image_layout, allocVars, lastCall>>

\* results of vkAcquireNextImageKHR / vkQueuePresentKHR
SwapchainResults == {"eSuccess", "eSuboptimalKHR", "eErrorOutOfDateKHR", "eErrorSurfaceLostKHR"}

\* Swapchain::acquire_next_image with the driver's result and image:
\* the swapchain afterwards, whether the semaphore gets signalled, and the
\* value returned ("throw" for Error)
Swapchain_acquire_next_image(sc, result, image_index) ==
    IF sc.m_image_index # NoImage THEN [sc |-> sc, signalled |-> FALSE, ret |-> "true"]
    ELSE IF result = "eErrorOutOfDateKHR" THEN [sc |-> sc, signalled |-> FALSE, ret |-> "false"]
    ELSE IF result \in {"eSuboptimalKHR", "eSuccess"}
    THEN [sc |-> [sc EXCEPT !.m_image_index = image_index], signalled |-> TRUE, ret |-> "true"]
    ELSE [sc |-> sc, signalled |-> FALSE, ret |-> "throw"]

\* the mutex after render() has acquired the image (lock.unlock() on both
\* branches, the unique_lock's destructor on a throw)
unlock_after_acquire(mutex) == NoThread

\* the semaphore render() gives to acquire_next_image: draw of the
\* frame index's Sync
acquire_signal(frame_index) == frame_index

\* render(), lines 722-729: acquire the image under the lock, then unlock
RenderAcquire ==
    /\ pc = "r_acquire"
    /\ \E result \in SwapchainResults, k \in ImageIndices :
         LET r == Swapchain_acquire_next_image(m_swapchain, result, k) IN
         /\ m_swapchain' = r.sc
         /\ m_syncs' = IF r.signalled
                       THEN [m_syncs EXCEPT ![acquire_signal(m_frame_index)].draw = TRUE]
                       ELSE m_syncs
         /\ IF r.ret = "throw"
            THEN /\ RenderReturn
                 /\ lastCall' = Call("render", NoMode, "error", 0)
            ELSE /\ acquired' = (r.ret = "true")
                 /\ signal' = acquire_signal(m_frame_index)
                 /\ pc' = IF r.ret = "true" THEN "r_record" ELSE "r_out_of_date"
                 /\ UNCHANGED <<frame, present_sucess, barriers, si, framebuffer_extent,
                                pi, lastCall>>
    /\ m_queue_mutex' = unlock_after_acquire(m_queue_mutex)
    /\ UNCHANGED <<passVars, spc, rect_call, vmaVars, objectVars>>
    /\ UNCHANGED <<fb, m_present_modes, m_command_buffers, m_imgui, imgui_frame, m_backbuffer_layout,
                   m_frame_index, m_current_cmd, should_render_imgui, submitted,
                   image_layout, allocVars>>

\* render(), lines 724-727: the swapchain was out of date
RenderOutOfDate ==
    /\ pc = "r_out_of_date"
    /\ recreate_ready(framebuffer_extent)
    /\ m_swapchain' = Swapchain_recreate(m_swapchain, framebuffer_extent, NoMode)
    /\ m_command_buffers' = [m_command_buffers EXCEPT ![m_current_cmd] = RenderCmd_end(@)]
    /\ m_current_cmd' = NoSlot
    /\ RenderReturn
    /\ lastCall' = Call("render", NoMode, "out_of_date", 0)
    /\ UNCHANGED <<passVars, spc, rect_call, vmaVars, objectVars>>
    /\ UNCHANGED <<fb, m_present_modes, m_syncs, m_imgui, imgui_frame, m_backbuffer_layout,
                   m_frame_index, should_render_imgui, m_queue_mutex, submitted,
                   image_layout, allocVars>>

\* whether render() blits the frame argument (frame.image && frame.view)
has_frame(f) == f.image # NullImage

\* resetFences on the fence of slot i
reset_fence(syncs, i) == [syncs EXCEPT ![i].drawn = FALSE]

\* mutant: the submission waits for the draw semaphore of the next slot
render_submit_info_wait_next(i, k) ==
    [cmd |-> i, wait |-> (i + 1) % RESOURCE_BUFFERING, signal |-> k]

\* the SubmitInfo2 render() builds for slot i and image k: the command
\* buffer, the semaphore waited for (draw of slot i) and the semaphore
\* signalled (the present semaphore of image k)
render_submit_info(i, k) == [cmd |-> i, wait |-> i, signal |-> k]

\* render(), lines 731-772: reset the fence, record the frame, build si
RenderRecord ==
    /\ pc = "r_record"
    /\ m_syncs' = reset_fence(m_syncs, m_frame_index)
    /\ LET r == RenderBackbuffer(has_frame(frame), should_render_imgui) IN
         /\ barriers' = r.bs
         /\ m_backbuffer_layout' = r.layout
    /\ image_layout' = IF has_frame(frame)
                       THEN record_barriers(image_layout, blit_to_backbuffer(frame.image))
                       ELSE image_layout
    /\ m_command_buffers' = [m_command_buffers EXCEPT ![m_current_cmd] = RenderCmd_end(@)]
    /\ si' = render_submit_info(m_frame_index, m_swapchain.m_image_index)
    /\ pc' = "r_lock2"
    /\ UNCHANGED <<passVars, spc, rect_call, vmaVars, objectVars>>
    /\ UNCHANGED <<fb, m_present_modes, m_swapchain, m_imgui, imgui_frame, m_frame_index, m_current_cmd,
                   should_render_imgui, m_queue_mutex, submitted, frame, acquired,
                   present_sucess, framebuffer_extent, signal, pi, allocVars, lastCall>>

\* render(), line 774: lock the queue mutex again
RenderLock2 ==
    /\ pc = "r_lock2"
    /\ mutex_free(m_queue_mutex)
    /\ m_queue_mutex' = RenderThread
    /\ pc' = "r_submit"
    /\ UNCHANGED <<passVars, spc, rect_call, vmaVars, objectVars>>
    /\ UNCHANGED <<fb, m_present_modes, m_swapchain, m_syncs, m_command_buffers, m_imgui, imgui_frame,
                   m_backbuffer_layout, m_frame_index, m_current_cmd, should_render_imgui,
                   submitted, renderLocals, image_layout, allocVars, lastCall>>

\* mutant: the submission is made without the fence
queue_submission_without_fence(info, fence, thread) ==
    [cmd |-> info.cmd, wait |-> info.wait, fence |-> NoSlot, owner |-> thread]

\* what the queue holds for m_queue.submit2(si, fence) by a thread
queue_submission(info, fence, thread) ==
    [cmd |-> info.cmd, wait |-> info.wait, fence |-> fence, owner |-> thread]

\* render(), line 775: submit the frame with the slot's fence
RenderSubmit ==
    /\ pc = "r_submit"
    /\ submitted' = submitted \cup {queue_submission(si, m_frame_index, RenderThread)}
    /\ m_command_buffers' = [m_command_buffers EXCEPT ![si.cmd].vk = vkQueueSubmit2(@)]
    /\ pc' = "r_present"
    /\ UNCHANGED <<passVars, spc, rect_call, vmaVars, objectVars>>
    /\ UNCHANGED <<fb, m_present_modes, m_swapchain, m_syncs, m_imgui, imgui_frame, m_backbuffer_layout,
                   m_frame_index, m_current_cmd, should_render_imgui, m_queue_mutex,
                   renderLocals, image_layout, allocVars, lastCall>>

\* mutant: present keeps the image index
Swapchain_present_keeps_index(sc, result) ==
    [sc |-> sc,
     pi |-> [image |-> sc.m_image_index, wait |-> sc.m_image_index],
     ret |-> IF result = "eErrorOutOfDateKHR" THEN "false"
             ELSE IF result \in {"eSuboptimalKHR", "eSuccess"} THEN "true"
             ELSE "throw"]

\* Swapchain::present with the driver's result: the Swapchain afterwards,
\* the PresentInfoKHR presented (the image index, and the present
\* semaphore of that image to wait for) and the value returned
Swapchain_present(sc, result) ==
    [sc |-> [sc EXCEPT !.m_image_index = NoImage],
     pi |-> [image |-> sc.m_image_index, wait |-> sc.m_image_index],
     ret |-> IF result = "eErrorOutOfDateKHR" THEN "false"
             ELSE IF result \in {"eSuboptimalKHR", "eSuccess"} THEN "true"
             ELSE "throw"]

\* render(), lines 776-777: present, then unlock
RenderPresent ==
    /\ pc = "r_present"
    /\ \E result \in SwapchainResults :
         LET r == Swapchain_present(m_swapchain, result) IN
         /\ m_swapchain' = r.sc
         /\ IF r.ret = "throw"
            THEN /\ RenderReturn
                 /\ lastCall' = Call("render", NoMode, "error", 0)
            ELSE /\ present_sucess' = (r.ret = "true")
                 /\ pi' = r.pi
                 /\ pc' = "r_finish"
                 /\ UNCHANGED <<frame, acquired, barriers, si, framebuffer_extent, signal,
                                lastCall>>
    /\ m_queue_mutex' = NoThread
    /\ UNCHANGED <<passVars, spc, rect_call, vmaVars, objectVars>>
    /\ UNCHANGED <<fb, m_present_modes, m_syncs, m_command_buffers, m_imgui, imgui_frame,
                   m_backbuffer_layout, m_frame_index, m_current_cmd, should_render_imgui,
                   submitted, image_layout, allocVars>>

\* mutant: the frame index is advanced without wrapping
next_frame_index_unwrapped(i) == i + 1

\* the frame index after a frame was rendered
next_frame_index(i) == (i + 1) % RESOURCE_BUFFERING

\* render(), lines 779-782: recreate on a failed present, advance the frame
RenderFinish ==
    /\ pc = "r_finish"
    /\ ~present_sucess => recreate_ready(fb)
    /\ m_swapchain' = IF ~present_sucess THEN Swapchain_recreate(m_swapchain, fb, NoMode)
                      ELSE m_swapchain
    /\ m_frame_index' = next_frame_index(m_frame_index)
    /\ m_current_cmd' = NoSlot
    /\ RenderReturn
    /\ lastCall' = Call("render", NoMode, "submitted", 0)
    /\ UNCHANGED <<passVars, spc, rect_call, vmaVars, objectVars>>
    /\ UNCHANGED <<fb, m_present_modes, m_syncs, m_command_buffers, m_imgui, imgui_frame,
                   m_backbuffer_layout, should_render_imgui, m_queue_mutex, submitted,
                   image_layout, allocVars>>

\* the queue completes a submission: it has waited for its semaphore, and
\* signals its fence
GpuComplete(s) ==
    /\ s \in submitted
    /\ s.wait # NoSlot => m_syncs[s.wait].draw
    /\ submitted' = submitted \ {s}
    /\ m_syncs' = [i \in Slots |->
                     [drawn |-> IF s.fence = i THEN TRUE ELSE m_syncs[i].drawn,
                      draw |-> IF s.wait = i THEN FALSE ELSE m_syncs[i].draw]]
    /\ m_command_buffers' =
         IF s.cmd # NoSlot /\ ~Pending2(s)
         THEN [m_command_buffers EXCEPT ![s.cmd].vk = IF @ = "pending" THEN "executable" ELSE @]
         ELSE m_command_buffers
    /\ UNCHANGED <<passVars, spc, rect_call, vmaVars, objectVars>>
    /\ UNCHANGED <<fb, m_present_modes, m_swapchain, m_imgui, imgui_frame, m_backbuffer_layout,
                   m_frame_index, m_current_cmd, should_render_imgui, m_queue_mutex, pc,
                   renderLocals, image_layout, allocVars, lastCall>>

\* the window's framebuffer changes size (or is minimised)
Resize(extent) ==
    /\ extent # fb
    /\ fb' = extent
    /\ UNCHANGED <<passVars, spc, rect_call, vmaVars, objectVars>>
    /\ UNCHANGED <<m_present_modes, m_swapchain, m_syncs, m_command_buffers, m_imgui, imgui_frame,
                   m_backbuffer_layout, m_frame_index, m_current_cmd, should_render_imgui,
                   m_queue_mutex, submitted, pc, renderLocals, image_layout, allocVars,
                   lastCall>>

\* RenderDevice::Impl::set_present_mode
SetPresentMode(desired) ==
    /\ pc = "idle"
    /\ IF desired \notin m_present_modes
       THEN /\ lastCall' = Call("set_present_mode", desired, "false", 0)
            /\ UNCHANGED m_swapchain
       ELSE /\ recreate_ready(fb)
            /\ m_swapchain' = Swapchain_recreate(m_swapchain, fb, desired)
            /\ lastCall' = Call("set_present_mode", desired, "true", 0)
    /\ UNCHANGED <<passVars, spc, rect_call, vmaVars, objectVars>>
    /\ UNCHANGED <<fb, m_present_modes, m_syncs, m_command_buffers, m_imgui, imgui_frame,
                   m_backbuffer_layout, m_frame_index, m_current_cmd, should_render_imgui,
                   m_queue_mutex, submitted, pc, renderLocals, image_layout, allocVars>>

\* RenderDevice::set_render_imgui
SetRenderImgui(should_render) ==
    /\ pc = "idle"
    /\ should_render_imgui' = should_render
    /\ lastCall' = Call("set_render_imgui", NoMode, "ok", 0)
    /\ UNCHANGED <<passVars, spc, rect_call, vmaVars, objectVars>>
    /\ UNCHANGED <<fb, m_present_modes, m_swapchain, m_syncs, m_command_buffers, m_imgui, imgui_frame,
                   m_backbuffer_layout, m_frame_index, m_current_cmd, m_queue_mutex,
                   submitted, pc, renderLocals, image_layout, allocVars>>

\* RenderDevice::Impl::allocate_sets with the driver's results r1, r2
AllocateSets(n_out, n_layouts, r1, r2) ==
    /\ pc = "idle"
    /\ LET a == m_descriptor_allocators[m_frame_index]
           a1 == DescriptorAllocator_try_allocate(a, n_layouts, r1)
           r == DescriptorAllocator_allocate(a, n_out, n_layouts, r1, r2)
       IN \/ /\ DescriptorAllocator_allocate_asserts(a)
             /\ a.m_index + 2 <= MaxPools
             /\ r1 \in AllocateResults(a, n_layouts)
             /\ r2 \in IF r1 = "eErrorOutOfPoolMemory" /\ n_layouts # 0 /\ n_out = n_layouts
                        THEN AllocateResults([a1 EXCEPT !.m_index = @ + 1], n_layouts)
                        ELSE {"eSuccess"}
             /\ m_descriptor_allocators' =
                   [m_descriptor_allocators EXCEPT ![m_frame_index] = r.a]
             /\ lastCall' = Call("allocate_sets", NoMode, IF r.ret THEN "true" ELSE "false", 0)
          \/ \* the assertion fails before anything is done
             /\ ~DescriptorAllocator_allocate_asserts(a)
             /\ r1 = "eSuccess" /\ r2 = "eSuccess"
             /\ lastCall' = Call("allocate_sets", NoMode, "assert", 0)
             /\ UNCHANGED m_descriptor_allocators
    /\ UNCHANGED <<passVars, spc, rect_call, vmaVars, objectVars>>
    /\ UNCHANGED <<fb, m_present_modes, m_swapchain, m_syncs, m_command_buffers, m_imgui, imgui_frame,
                   m_backbuffer_layout, m_frame_index, m_current_cmd, should_render_imgui,
                   m_queue_mutex, submitted, pc, renderLocals, image_layout,
                   m_buffer_allocators, scratch, handed, ever>>

\* the buffers handed out for a frame index, after one more was returned
\* (0: none was, the call threw)
HandOut(h, i, buffer) == IF buffer = 0 THEN h ELSE [h EXCEPT ![i] = Append(@, buffer)]
EverOut(e, i, buffer) == IF buffer = 0 THEN e ELSE [e EXCEPT ![i] = @ \cup {buffer}]

\* RenderDevice::Impl::allocate_scratch_buffer; ok: vmaCreateBuffer succeeds
AllocateScratchBuffer(usage, size, ok) ==
    /\ pc = "idle"
    /\ LET i == scratch_slot(m_frame_index)
           pool == m_buffer_allocators[i][usage]
           r == BufferAllocator_allocate(m_buffer_allocators[i], scratch, usage, size, ok)
       IN /\ pool.index >= Len(pool.buffers) => Len(scratch) < MaxBuffers
          /\ m_buffer_allocators' = [m_buffer_allocators EXCEPT ![i] = r.b]
          /\ scratch' = r.bufs
          /\ handed' = HandOut(handed, m_frame_index, r.ret)
          /\ ever' = EverOut(ever, m_frame_index, r.ret)
          /\ lastCall' = Call("allocate_scratch_buffer", NoMode,
                              IF r.ret = 0 THEN "error" ELSE "ok", r.ret)
    /\ UNCHANGED <<passVars, spc, rect_call, vmaVars, objectVars>>
    /\ UNCHANGED <<fb, m_present_modes, m_swapchain, m_syncs, m_command_buffers, m_imgui, imgui_frame,
                   m_backbuffer_layout, m_frame_index, m_current_cmd, should_render_imgui,
                   m_queue_mutex, submitted, pc, renderLocals, image_layout,
                   m_descriptor_allocators>>

\* RenderDevice::Impl::scratch_descriptor_buffer: allocate with size 0,
\* then overwrite the buffer with write_size bytes (ok, ok2: the buffer
\* creations of the allocation and of the resize succeed)
ScratchDescriptorBuffer(usage, write_size, ok, ok2) ==
    /\ pc = "idle"
    /\ LET i == scratch_slot(m_frame_index)
           pool == m_buffer_allocators[i][usage]
           r == BufferAllocator_allocate(m_buffer_allocators[i], scratch, usage, 0, ok)
       IN /\ pool.index >= Len(pool.buffers) => Len(scratch) < MaxBuffers
          /\ m_buffer_allocators' = [m_buffer_allocators EXCEPT ![i] = r.b]
          /\ scratch' = IF r.ret = 0 THEN r.bufs
                        ELSE [r.bufs EXCEPT ![r.ret] = Buffer_resize(@, write_size, ok2)]
          /\ handed' = HandOut(handed, m_frame_index, r.ret)
          /\ ever' = EverOut(ever, m_frame_index, r.ret)
          /\ lastCall' = Call("scratch_descriptor_buffer", NoMode,
                              IF r.ret = 0 THEN "error" ELSE "ok", r.ret)
    /\ UNCHANGED <<passVars, spc, rect_call, vmaVars, objectVars>>
    /\ UNCHANGED <<fb, m_present_modes, m_swapchain, m_syncs, m_command_buffers, m_imgui, imgui_frame,
                   m_backbuffer_layout, m_frame_index, m_current_cmd, should_render_imgui,
                   m_queue_mutex, submitted, pc, renderLocals, image_layout,
                   m_descriptor_allocators>>

DescriptorNext ==
    \E n_out, n_layouts \in 0 .. MaxLayouts :
       \E r1, r2 \in {"eSuccess", "eErrorOutOfPoolMemory", "eErrorOutOfHostMemory"} :
          AllocateSets(n_out, n_layouts, r1, r2)

ScratchNext ==
    \/ \E usage \in Usages, size \in 0 .. MaxSize, ok \in BOOLEAN :
         AllocateScratchBuffer(usage, size, ok)
    \/ \E usage \in Usages, write_size \in 0 .. MaxSize, ok, ok2 \in BOOLEAN :
         ScratchDescriptorBuffer(usage, write_size, ok, ok2)

\* ------------------------------------------------------- RenderPass ----
\* ensure_positive(extent.width, extent.height)
ensure_positive_extent(extent) == <<ensure_positive(extent[1]), ensure_positive(extent[2])>>

\* vma::Image{m_device, ici, m_extent} of a framebuffer: a new image, of
\* the extent made positive
Image_new(kind, i, extent) ==
    [image |-> <<kind, i, 0>>, extent |-> ensure_positive_extent(extent)]

\* RenderPass::has_color_target / has_depth_target
has_color_target(fbs) == fbs[0].color.image # NullImage
has_depth_target(fbs) == fbs[0].depth.image # NullImage

\* RenderPass::render_target
RenderPass_render_target(targets) ==
    IF targets.resolve # NullImage THEN [image |-> targets.resolve]
    ELSE IF targets.color # NullImage THEN [image |-> targets.color]
    ELSE [image |-> targets.depth]

\* the layouts once the images in `created` are new
layouts_with_new(layouts, created) ==
    [img \in DOMAIN layouts \cup created |->
        IF img \in created THEN "Undefined" ELSE layouts[img]]

\* handles held in m_targets to images that were replaced dangle
targets_after_new(targets, created) ==
    [k \in DOMAIN targets |-> IF targets[k] \in created THEN DanglingImage ELSE targets[k]]

\* RenderPass::RenderPass(render_device, samples)
RenderPassCtor(samples) ==
    /\ pc = "idle"
    /\ m_samples = NoSamples
    /\ m_samples' = samples
    /\ lastCall' = Call("RenderPass", NoMode, "ok", 0)
    /\ UNCHANGED <<fb, m_present_modes, m_swapchain, m_syncs, m_command_buffers, m_imgui, imgui_frame,
                   m_backbuffer_layout, m_frame_index, m_current_cmd, should_render_imgui,
                   m_queue_mutex, submitted, pc, renderLocals, image_layout, allocVars,
                   m_framebuffers, m_command_buffer, m_targets, depth_store_op,
                   m_extent, spc, rect_call, vmaVars, objectVars>>

\* mutant: the resolve image of a framebuffer is created before its colour
\* image
set_color_target_resolve_first(fbs, samples, extent, n_ok, half) ==
    [i \in Slots |->
        IF i < n_ok
        THEN [fbs[i] EXCEPT !.color = Image_new("color", i, extent),
                            !.resolve = IF samples # "e1"
                                        THEN Image_new("resolve", i, extent) ELSE @]
        ELSE IF i = n_ok /\ half /\ samples # "e1"
        THEN [fbs[i] EXCEPT !.resolve = Image_new("resolve", i, extent)]
        ELSE fbs[i]]

\* RenderPass::set_color_target; n_ok: the framebuffers whose images get
\* created before a vma::Image constructor throws (all: none throws);
\* half: in framebuffer n_ok the colour image is created and the
\* constructor of the resolve image is the one that throws
set_color_target(fbs, samples, extent, n_ok, half) ==
    [i \in Slots |->
        IF i < n_ok
        THEN [fbs[i] EXCEPT !.color = Image_new("color", i, extent),
                            !.resolve = IF samples # "e1"
                                        THEN Image_new("resolve", i, extent) ELSE @]
        ELSE IF i = n_ok /\ half /\ samples # "e1"
        THEN [fbs[i] EXCEPT !.color = Image_new("color", i, extent)]
        ELSE fbs[i]]

\* RenderPass::set_depth_target, likewise
set_depth_target(fbs, extent, n_ok) ==
    [i \in Slots |-> IF i >= n_ok THEN fbs[i]
                     ELSE [fbs[i] EXCEPT !.depth = Image_new("depth", i, extent)]]

\* the images set_color_target / set_depth_target create
color_images(samples, n_ok, half) ==
    {<<"color", i, 0>> : i \in {j \in Slots : j < n_ok \/ (j = n_ok /\ half)}}
        \cup {<<"resolve", i, 0>> : i \in {j \in Slots : j < n_ok /\ samples # "e1"}}
depth_images(n_ok) == {<<"depth", i, 0>> : i \in {j \in Slots : j < n_ok}}

SetTarget(fbs, created, op, n_ok) ==
    /\ pc = "idle"
    /\ m_samples # NoSamples
    /\ m_framebuffers' = fbs
    /\ image_layout' = layouts_with_new(image_layout, created)
    /\ m_targets' = targets_after_new(m_targets, created)
    /\ lastCall' = Call(op, NoMode, IF n_ok = RESOURCE_BUFFERING THEN "ok" ELSE "error", 0)
    /\ UNCHANGED <<fb, m_present_modes, m_swapchain, m_syncs, m_command_buffers, m_imgui, imgui_frame,
                   m_backbuffer_layout, m_frame_index, m_current_cmd, should_render_imgui,
                   m_queue_mutex, submitted, pc, renderLocals, allocVars, m_samples,
                   m_command_buffer, depth_store_op, m_extent, spc, rect_call, vmaVars, objectVars>>

SetColorTarget(n_ok, half) ==
    /\ half => (m_samples # "e1" /\ n_ok < RESOURCE_BUFFERING)
    /\ SetTarget(set_color_target(m_framebuffers, m_samples, m_extent, n_ok, half),
                 color_images(m_samples, n_ok, half), "set_color_target", n_ok)

SetDepthTarget(n_ok) ==
    SetTarget(set_depth_target(m_framebuffers, m_extent, n_ok),
              depth_images(n_ok), "set_depth_target", n_ok)

\* the extents passed to begin_render
PassExtents == {<<0, 1>>, <<1, 1>>, <<2, 1>>}

\* the vmaCreateImage call of begin_render that fails, if one does
ResizeFailures == {"none", "color", "resolve", "depth"}

\* vma::Image::resize(extent) of a framebuffer image; ok: vmaCreateImage
\* succeeds. A failed resize returns false and leaves the image as it is.
Image_resize(img, extent, ok) ==
    IF img.image = NullImage THEN img
    ELSE IF img.extent = ensure_positive_extent(extent) THEN img
    ELSE IF ~ok THEN img
    ELSE [img EXCEPT !.extent = ensure_positive_extent(extent)]

\* RenderPass::set_render_targets: the framebuffers after the images of
\* the framebuffer of frame index i are resized to m_extent; the results
\* of the resize calls are not looked at
set_render_targets(fbs, i, extent, fail) ==
    LET framebuffer == fbs[i]
        color_differs == framebuffer.color.image # NullImage
                           /\ framebuffer.color.extent # extent
    IN [fbs EXCEPT ![i] =
          [color |-> IF color_differs
                     THEN Image_resize(framebuffer.color, extent, fail # "color")
                     ELSE framebuffer.color,
           resolve |-> IF color_differs
                       THEN Image_resize(framebuffer.resolve, extent, fail # "resolve")
                       ELSE framebuffer.resolve,
           depth |-> IF framebuffer.depth.image # NullImage
                          /\ framebuffer.depth.extent # extent
                     THEN Image_resize(framebuffer.depth, extent, fail # "depth")
                     ELSE framebuffer.depth]]

\* the images a resize has replaced with new ones
images_resized(old, new) ==
    {old[x[1]][x[2]].image :
        x \in {y \in Slots \X {"color", "resolve", "depth"} :
                  old[y[1]][y[2]] # new[y[1]][y[2]]}}

\* the barriers begin_render builds for its targets
RenderPass_begin_render_barriers(targets) ==
    (IF targets.color # NullImage
     THEN <<[image |-> targets.color, oldLayout |-> "Undefined", newLayout |-> "AttachmentOptimal"]>>
     ELSE <<>>)
    \o (IF targets.resolve # NullImage
        THEN <<[image |-> targets.resolve, oldLayout |-> "Undefined", newLayout |-> "AttachmentOptimal"]>>
        ELSE <<>>)
    \o (IF targets.depth # NullImage
        THEN <<[image |-> targets.depth, oldLayout |-> "Undefined", newLayout |-> "AttachmentOptimal"]>>
        ELSE <<>>)

\* mutant: end_render builds no barrier for the resolve target
RenderPass_end_render_barriers_no_resolve(targets, store_op) ==
    (IF targets.color # NullImage
     THEN <<[image |-> targets.color, oldLayout |-> "AttachmentOptimal",
             newLayout |-> "ShaderReadOnlyOptimal"]>>
     ELSE <<>>)
    \o (IF targets.depth # NullImage /\ store_op = "eStore"
        THEN <<[image |-> targets.depth, oldLayout |-> "AttachmentOptimal",
                newLayout |-> "ShaderReadOnlyOptimal"]>>
        ELSE <<>>)

\* the barriers end_render builds for its targets
RenderPass_end_render_barriers(targets, store_op) ==
    (IF targets.color # NullImage
     THEN <<[image |-> targets.color, oldLayout |-> "AttachmentOptimal",
             newLayout |-> "ShaderReadOnlyOptimal"]>>
     ELSE <<>>)
    \o (IF targets.resolve # NullImage
        THEN <<[image |-> targets.resolve, oldLayout |-> "AttachmentOptimal",
                newLayout |-> "ShaderReadOnlyOptimal"]>>
        ELSE <<>>)
    \o (IF targets.depth # NullImage /\ store_op = "eStore"
        THEN <<[image |-> targets.depth, oldLayout |-> "AttachmentOptimal",
                newLayout |-> "ShaderReadOnlyOptimal"]>>
        ELSE <<>>)

\* util::record_barriers into the pass's command buffer: nothing for a
\* null handle; recording into a command buffer that is not in the
\* recording state is invalid, the barriers may or may not take effect
RecordInto(cmd, layouts, bs) ==
    IF cmd = NoSlot THEN {layouts}
    ELSE IF m_command_buffers[cmd].recording THEN {record_barriers(layouts, bs)}
    ELSE {layouts, record_barriers(layouts, bs)}

RecordResult(cmd) ==
    IF cmd = NoSlot THEN "no_cmd"
    ELSE IF m_command_buffers[cmd].recording THEN "recorded" ELSE "invalid"

\* command buffers the application has to pass: none, or the device's
\* current one
CommandBuffers == {NoSlot, m_current_cmd}

\* the assertion begin_render and end_render make before they copy the
\* colour barrier for the resolve image (m_barriers holds the colour
\* barrier exactly when there is a colour image)
RenderPass_resolve_asserts(targets) ==
    targets.resolve # NullImage => targets.color # NullImage

\* RenderPass::begin_render(command_buffer, extent); fail: the
\* vmaCreateImage call that fails, if it is made
BeginRender(command_buffer, extent, fail) ==
    /\ pc = "idle"
    /\ m_samples # NoSamples
    /\ IF ~has_color_target(m_framebuffers) /\ ~has_depth_target(m_framebuffers)
       THEN /\ lastCall' = Call("begin_render", NoMode, "return", 0)
            /\ UNCHANGED <<m_command_buffer, m_targets, image_layout, m_extent,
                           m_framebuffers>>
       ELSE LET fbs == set_render_targets(m_framebuffers, m_frame_index,
                                          ensure_positive_extent(extent), fail)
                framebuffer == fbs[m_frame_index]
                created == images_resized(m_framebuffers, fbs)
                targets == [color |-> framebuffer.color.image,
                            resolve |-> framebuffer.resolve.image,
                            depth |-> framebuffer.depth.image]
            IN /\ m_extent' = ensure_positive_extent(extent)
               /\ m_command_buffer' = command_buffer
               /\ m_framebuffers' = fbs
               /\ m_targets' = targets
               /\ image_layout' \in RecordInto(command_buffer,
                                               layouts_with_new(image_layout, created),
                                               RenderPass_begin_render_barriers(targets))
               /\ lastCall' = Call("begin_render", NoMode,
                                   IF RenderPass_resolve_asserts(targets)
                                   THEN "ok" ELSE "assert", 0)
    /\ UNCHANGED <<fb, m_present_modes, m_swapchain, m_syncs, m_command_buffers, m_imgui, imgui_frame,
                   m_backbuffer_layout, m_frame_index, m_current_cmd, should_render_imgui,
                   m_queue_mutex, submitted, pc, renderLocals, allocVars, m_samples,
                   depth_store_op, spc, rect_call, vmaVars, objectVars>>

\* RenderPass::end_render
EndRender ==
    /\ pc = "idle"
    /\ m_samples # NoSamples
    /\ image_layout' \in RecordInto(m_command_buffer, image_layout,
                                    RenderPass_end_render_barriers(m_targets, depth_store_op))
    /\ m_command_buffer' = NoSlot
    /\ lastCall' = Call("end_render", NoMode,
                        IF RenderPass_resolve_asserts(m_targets)
                        THEN RecordResult(m_command_buffer) ELSE "assert", 0)
    /\ UNCHANGED <<fb, m_present_modes, m_swapchain, m_syncs, m_command_buffers, m_imgui, imgui_frame,
                   m_backbuffer_layout, m_frame_index, m_current_cmd, should_render_imgui,
                   m_queue_mutex, submitted, pc, renderLocals, allocVars, m_samples,
                   m_framebuffers, m_targets, depth_store_op, m_extent, spc, rect_call, vmaVars, objectVars>>

\* the application assigns the public field depth_store_op
SetDepthStoreOp(op) ==
    /\ pc = "idle"
    /\ m_samples # NoSamples
    /\ depth_store_op' = op
    /\ lastCall' = Call("depth_store_op", NoMode, "ok", 0)
    /\ UNCHANGED <<fb, m_present_modes, m_swapchain, m_syncs, m_command_buffers, m_imgui, imgui_frame,
                   m_backbuffer_layout, m_frame_index, m_current_cmd, should_render_imgui,
                   m_queue_mutex, submitted, pc, renderLocals, image_layout, allocVars,
                   m_samples, m_framebuffers, m_command_buffer, m_targets, m_extent,
                   spc, rect_call, vmaVars, objectVars>>

\* ------------------------------------------------ Swapchain::recreate ----
\* Swapchain::recreate is called on the constructed device's swapchain
\* while the surface reports the capabilities caps
SwapchainRecreate(caps, framebuffer, present_mode, driver) ==
    /\ pc = "idle"
    /\ lastCall.op = "ctor"
    /\ recreate_ready(framebuffer)
    /\ LET r == Swapchain_recreate_surface(m_swapchain, caps, framebuffer, present_mode,
                                           driver) IN
         /\ m_swapchain' = r.sc
         /\ lastCall' = Call("recreate", present_mode, r.ret, r.sc.m_info.minImageCount)
    /\ UNCHANGED <<passVars, spc, rect_call, vmaVars, objectVars>>
    /\ UNCHANGED <<fb, m_present_modes, m_syncs, m_command_buffers, m_imgui, imgui_frame,
                   m_backbuffer_layout, m_frame_index, m_current_cmd, should_render_imgui,
                   m_queue_mutex, submitted, pc, renderLocals, image_layout, allocVars>>

SwapchainNext ==
    \E caps \in SurfaceCapabilities, framebuffer \in Extents,
       present_mode \in DesiredModes \cup {NoMode}, driver \in DriverResults :
         SwapchainRecreate(caps, framebuffer, present_mode, driver)

\* ------------------------------------------------------------- Rect ----
\* Rect<int>: division of ints truncates towards zero
truncated_div(a, b) == IF a >= 0 THEN a \div b ELSE -((-a) \div b)
abs(x) == IF x < 0 THEN -x ELSE x

\* the coordinates of the rects given to is_intersecting, the points of
\* the grid, and the rects with lt.x <= rb.x and rb.y <= lt.y
Coords == 0 .. MaxCoord
Points == Coords \X Coords
Rects == {r \in [lt : Points, rb : Points] : r.lt[1] <= r.rb[1] /\ r.rb[2] <= r.lt[2]}
\* the sizes and centres given to from_size
Sizes == (0 .. MaxCoord) \X (0 .. MaxCoord)
Centers == ((-MaxCoord) .. MaxCoord) \X ((-MaxCoord) .. MaxCoord)

\* Rect::from_size
Rect_from_size(size, center) ==
    IF size[1] = 0 /\ size[2] = 0 THEN [lt |-> center, rb |-> center]
    ELSE LET he == <<truncated_div(size[1], 2), truncated_div(size[2], 2)>>
         IN [lt |-> <<center[1] - he[1], center[2] + he[2]>>,
             rb |-> <<center[1] + he[1], center[2] - he[2]>>]

\* Rect::top_left, top_right, bottom_left, bottom_right
Rect_top_left(r) == r.lt
Rect_top_right(r) == <<r.rb[1], r.lt[2]>>
Rect_bottom_left(r) == <<r.lt[1], r.rb[2]>>
Rect_bottom_right(r) == r.rb

\* Rect::center, Rect::size
Rect_center(r) ==
    <<truncated_div(r.lt[1] + r.rb[1], 2), truncated_div(r.lt[2] + r.rb[2], 2)>>
Rect_size(r) == <<abs(r.rb[1] - r.lt[1]), abs(r.lt[2] - r.rb[2])>>

\* Rect::contains(point)
Rect_contains(r, point) ==
    /\ r.lt[1] <= point[1] /\ point[1] <= r.rb[1]
    /\ r.rb[2] <= point[2] /\ point[2] <= r.lt[2]

\* Rect::contains(other): a corner of other is contained
Rect_contains_rect(r, other) ==
    \/ Rect_contains(r, Rect_top_left(other))
    \/ Rect_contains(r, Rect_top_right(other))
    \/ Rect_contains(r, Rect_bottom_left(other))
    \/ Rect_contains(r, Rect_bottom_right(other))

\* is_intersecting
is_intersecting(a, b) == Rect_contains_rect(a, b) \/ Rect_contains_rect(b, a)

\* every variable of the device, the render pass and the threads
deviceVars ==
    <<fb, m_present_modes, m_swapchain, m_syncs, m_command_buffers, m_imgui, imgui_frame,
      m_backbuffer_layout, m_frame_index, m_current_cmd, should_render_imgui,
      m_queue_mutex, submitted, pc, renderLocals, image_layout, allocVars, lastCall,
      passVars, spc>>

\* is_intersecting(a, b) is called
IsIntersecting(a, b) ==
    /\ rect_call.op = "none"
    /\ rect_call' = [op |-> "is_intersecting", a |-> a, b |-> b,
                     ret |-> is_intersecting(a, b)]
    /\ UNCHANGED <<deviceVars, vmaVars, objectVars>>

\* Rect<int>::from_size(size, center) is called
FromSize(size, center) ==
    /\ rect_call.op = "none"
    /\ rect_call' = [op |-> "from_size", size |-> size, center |-> center,
                     ret |-> Rect_from_size(size, center)]
    /\ UNCHANGED <<deviceVars, vmaVars, objectVars>>

RectNext ==
    \/ \E a, b \in Rects : IsIntersecting(a, b)
    \/ \E size \in Sizes, center \in Centers : FromSize(size, center)

\* the frame loop but for the call of render(): next_frame, the steps
\* inside render() and the GPU
FrameSteps ==
    \/ NextFrame
    \/ RenderWait
    \/ RenderLock
    \/ RenderAcquire
    \/ RenderOutOfDate
    \/ RenderRecord
    \/ RenderLock2
    \/ RenderSubmit
    \/ RenderPresent
    \/ RenderFinish
    \/ \E s \in submitted : GpuComplete(s)

\* the frame loop: render() is given no frame or an application image
FrameNext ==
    \/ FrameSteps
    \/ \E f \in {NullTarget, AppTarget} : RenderBegin(f)

DeviceNext ==
    \/ FrameNext
    \/ \E extent \in Extents : Resize(extent)
    \/ \E desired \in DesiredModes : SetPresentMode(desired)
    \/ \E should_render \in BOOLEAN : SetRenderImgui(should_render)

\* ------------------------------------------------- submitter threads ----
\* a thread other than the render thread calls queue_submit, directly or
\* (and_wait) from CommandBuffer::submit_and_wait
QueueSubmitCall(t, and_wait) ==
    /\ spc[t].pc = "idle"
    /\ spc' = [spc EXCEPT ![t] = [pc |-> "q_lock", and_wait |-> and_wait]]
    /\ UNCHANGED <<fb, m_present_modes, m_swapchain, m_syncs, m_command_buffers, m_imgui, imgui_frame,
                   m_backbuffer_layout, m_frame_index, m_current_cmd, should_render_imgui,
                   m_queue_mutex, submitted, pc, renderLocals, image_layout, allocVars,
                   lastCall, passVars, rect_call, vmaVars, objectVars>>

\* queue_submit, line 687: the scoped_lock takes the queue mutex
QueueSubmitLock(t) ==
    /\ spc[t].pc = "q_lock"
    /\ mutex_free(m_queue_mutex)
    /\ m_queue_mutex' = t
    /\ spc' = [spc EXCEPT ![t].pc = "q_submit"]
    /\ UNCHANGED <<fb, m_present_modes, m_swapchain, m_syncs, m_command_buffers, m_imgui, imgui_frame,
                   m_backbuffer_layout, m_frame_index, m_current_cmd, should_render_imgui,
                   submitted, pc, renderLocals, image_layout, allocVars, lastCall, passVars, rect_call, vmaVars, objectVars>>

\* queue_submit, lines 688-689: submit2 with the caller's fence, then the
\* scoped_lock releases the mutex
QueueSubmit(t) ==
    /\ spc[t].pc = "q_submit"
    /\ submitted' = submitted \cup {queue_submission(NoSubmitInfo, NoSlot, t)}
    /\ m_queue_mutex' = NoThread
    /\ spc' = [spc EXCEPT ![t].pc = IF spc[t].and_wait THEN "q_wait" ELSE "idle"]
    /\ UNCHANGED <<fb, m_present_modes, m_swapchain, m_syncs, m_command_buffers, m_imgui, imgui_frame,
                   m_backbuffer_layout, m_frame_index, m_current_cmd, should_render_imgui,
                   pc, renderLocals, image_layout, allocVars, lastCall, passVars, rect_call, vmaVars, objectVars>>

\* submit_and_wait, line 1721: wait_for_fence returns, the fence signalled
\* or the timeout expired
SubmitAndWaitReturn(t) ==
    /\ spc[t].pc = "q_wait"
    /\ spc' = [spc EXCEPT ![t].pc = "idle"]
    /\ UNCHANGED <<fb, m_present_modes, m_swapchain, m_syncs, m_command_buffers, m_imgui, imgui_frame,
                   m_backbuffer_layout, m_frame_index, m_current_cmd, should_render_imgui,
                   m_queue_mutex, submitted, pc, renderLocals, image_layout, allocVars,
                   lastCall, passVars, rect_call, vmaVars, objectVars>>

SubmitterNext ==
    \E t \in Submitters :
       \/ \E and_wait \in BOOLEAN : QueueSubmitCall(t, and_wait)
       \/ QueueSubmitLock(t)
       \/ QueueSubmit(t)
       \/ SubmitAndWaitReturn(t)

PassNext ==
    \/ \E samples \in SampleCounts : RenderPassCtor(samples)
    \/ \E n_ok \in CreatedCounts : SetColorTarget(n_ok, FALSE)
    \/ \E n_ok \in CreatedCounts : SetDepthTarget(n_ok)
    \/ \E command_buffer \in CommandBuffers : BeginRender(command_buffer, <<1, 1>>, "none")
    \/ EndRender
    \/ \E op \in StoreOps : SetDepthStoreOp(op)
    \/ RenderBegin(RenderPass_render_target(m_targets))
    \/ FrameSteps

\* the calls of a RenderPass where a vma::Image constructor can throw at
\* any image, between next_frame calls
TargetNext ==
    \/ \E samples \in SampleCounts : RenderPassCtor(samples)
    \/ \E n_ok \in 0 .. RESOURCE_BUFFERING, half \in BOOLEAN : SetColorTarget(n_ok, half)
    \/ \E n_ok \in 0 .. RESOURCE_BUFFERING : SetDepthTarget(n_ok)
    \/ \E command_buffer \in CommandBuffers : BeginRender(command_buffer, <<1, 1>>, "none")
    \/ EndRender
    \/ NextFrame

\* the calls of a RenderPass with every extent passed to begin_render and
\* every resize that can fail, between next_frame calls
ExtentNext ==
    \/ \E samples \in SampleCounts : RenderPassCtor(samples)
    \/ \E n_ok \in CreatedCounts : SetColorTarget(n_ok, FALSE)
    \/ \E n_ok \in CreatedCounts : SetDepthTarget(n_ok)
    \/ \E command_buffer \in CommandBuffers, extent \in PassExtents, fail \in ResizeFailures :
         BeginRender(command_buffer, extent, fail)
    \/ EndRender
    \/ NextFrame

Next == DeviceNext

Spec == Init /\ [][Next]_vars

\* the frame loop with the descriptor-set allocators, and with the
\* scratch-buffer allocators
\* the frame loop with a RenderPass whose target is what render() is given,
\* for a window of extent (1, 1) on a surface that supports Fifo only
PassInit == Init /\ fb = <<1, 1>> /\ m_present_modes = {"Fifo"}

PassSpec == PassInit /\ [][PassNext]_vars

TargetSpec == PassInit /\ [][TargetNext]_vars

ExtentSpec == PassInit /\ [][ExtentNext]_vars

\* the frame loop with other threads submitting to the queue
MTSpec == Init /\ [][FrameNext \/ SubmitterNext]_vars

DescriptorSpec == Init /\ [][FrameNext \/ DescriptorNext]_vars

ScratchSpec == Init /\ [][FrameNext \/ ScratchNext]_vars

\* allocate_sets and next_frame called in any order, with no render between
AllocatorNext ==
    \/ NextFrame
    \/ DescriptorNext

AllocatorSpec == Init /\ [][AllocatorNext]_vars

\* the same calls on a device constructed from any RenderDeviceCreateInfo
CtorSpec == CtorInit /\ [][AllocatorNext]_vars

\* Swapchain::recreate called once on the constructed device's swapchain
\* for any surface capabilities, extent and present mode
SwapchainSpec == Init /\ [][SwapchainNext]_vars

\* a Rect function called with any arguments of the grid
RectSpec == Init /\ [][RectNext]_vars

\* ------------------------------------------------------- vma::Buffer ----
\* the device constructed for a 1 x 1 window on a surface with Fifo only:
\* Buffers and Images depend on the device for nothing but its allocator
ResourceInit == Init /\ fb = <<1, 1>> /\ m_present_modes = {"Fifo"}

\* vk::DeviceSize values, and their unsigned sum
DeviceSizes == 0 .. (2 ^ DeviceSizeBits - 1)
DeviceSize_add(a, b) == (a + b) % (2 ^ DeviceSizeBits)

\* the bytes a BufferWrite can carry ("u" is a byte nothing has written)
Bytes == {"a", "b"}
RECURSIVE SeqsUpTo(_, _)
SeqsUpTo(S, n) ==
    IF n = 0 THEN {<<>>}
    ELSE LET shorter == SeqsUpTo(S, n - 1)
         IN shorter \cup {Append(q, x) : q \in {r \in shorter : Len(r) = n - 1}, x \in S}
BufferWrites == SeqsUpTo(Bytes, MaxWrite)
BufferTypes == {"Host", "Device"}
\* what undefined behaviour does in a build: the process dies, or the
\* bytes land outside the buffer
UndefinedOutcomes == {"crash", "oob"}

\* mutant: a resize within the capacity gives the surplus up
vma_Buffer_resize_shrinks(buf, size, ok) ==
    LET sz == ensure_positive(size)
    IN IF ~buf.m_api THEN [buf |-> buf, ret |-> "false"]
       ELSE IF buf.m_buffer # 0 /\ buf.m_capacity >= sz
       THEN [buf |-> [buf EXCEPT !.m_size = sz, !.m_capacity = sz], ret |-> "true"]
       ELSE IF ~ok THEN [buf |-> buf, ret |-> "false"]
       ELSE [buf |-> [buf EXCEPT !.m_size = sz, !.m_capacity = sz,
                                 !.m_buffer = buf.m_buffer + 1,
                                 !.bytes = [k \in 1 .. sz |-> "u"]],
             ret |-> "true"]

\* vma::Buffer::resize(size); ok is the result of vmaCreateBuffer. The
\* payload m_buffer is numbered by the allocations made (0 is the identity);
\* a new allocation holds bytes nothing has written
vma_Buffer_resize(buf, size, ok) ==
    LET sz == ensure_positive(size)
    IN IF ~buf.m_api THEN [buf |-> buf, ret |-> "false"]
       ELSE IF buf.m_buffer # 0 /\ buf.m_capacity >= sz
       THEN [buf |-> [buf EXCEPT !.m_size = sz], ret |-> "true"]
       ELSE IF ~ok THEN [buf |-> buf, ret |-> "false"]
       ELSE [buf |-> [buf EXCEPT !.m_size = sz, !.m_capacity = sz,
                                 !.m_buffer = buf.m_buffer + 1,
                                 !.bytes = [k \in 1 .. sz |-> "u"]],
             ret |-> "true"]

\* the buffer's bytes after data is copied to [offset, offset + Len(data))
bytes_written(bytes, data, offset) ==
    [k \in 1 .. Len(bytes) |->
        IF k > offset /\ k <= offset + Len(data) THEN data[k - offset] ELSE bytes[k]]

\* vma::Buffer::write_contiguous({data}, write_size, offset). The check
\* against get_size() is made on the unsigned sum; when that sum has wrapped,
\* the copy starts past the end of the buffer, which is undefined (ub is what
\* the build makes of it). A Device buffer is written through a staging
\* buffer (staging_ok: its vmaCreateBuffer succeeds) and a submitted copy
\* (submit_ok: submit_and_wait returns true)
vma_Buffer_write_contiguous(buf, data, write_size, offset, staging_ok, submit_ok, ub) ==
    IF ~buf.m_api THEN [buf |-> buf, ret |-> "false"]
    ELSE IF buf.m_size < DeviceSize_add(offset, write_size)
    THEN [buf |-> buf, ret |-> "false"]
    ELSE IF write_size = 0 THEN [buf |-> buf, ret |-> "true"]
    ELSE IF offset + write_size > buf.m_size
    THEN IF ub = "crash" THEN [buf |-> buf, ret |-> "crash"]
         ELSE [buf |-> [buf EXCEPT !.oob = TRUE], ret |-> "true"]
    ELSE IF buf.type = "Host"
    THEN [buf |-> [buf EXCEPT !.bytes = bytes_written(buf.bytes, data, offset)],
          ret |-> "true"]
    ELSE IF ~staging_ok THEN [buf |-> buf, ret |-> "throw"]
    ELSE IF ~submit_ok THEN [buf |-> buf, ret |-> "false"]
    ELSE [buf |-> [buf EXCEPT !.bytes = bytes_written(buf.bytes, data, offset)],
          ret |-> "true"]

\* vma::Buffer::write_in_place(write, offset)
vma_Buffer_write_in_place(buf, data, offset, staging_ok, submit_ok, ub) ==
    IF ~buf.m_api THEN [buf |-> buf, ret |-> "false"]
    ELSE vma_Buffer_write_contiguous(buf, data, Len(data), offset, staging_ok,
                                     submit_ok, ub)

\* vma::Buffer::overwrite(write), through overwrite_contiguous
vma_Buffer_overwrite(buf, data, ok, staging_ok, submit_ok) ==
    LET total_size == Len(data)
        r == vma_Buffer_resize(buf, total_size, ok)
    IN IF r.ret # "true" THEN r
       ELSE vma_Buffer_write_contiguous(r.buf, data, total_size, 0, staging_ok,
                                        submit_ok, "crash")

\* Buffer::Buffer(api, create_info, size): throws when resize fails, and
\* then there is no Buffer
BufferCtor(type, size, ok) ==
    /\ vma_buffer = NoBuffer
    /\ vma_call.op = "none"
    /\ LET r == vma_Buffer_resize([NoBuffer EXCEPT !.m_api = TRUE, !.type = type],
                                  size, ok) IN
         /\ vma_buffer' = IF r.ret = "true" THEN r.buf ELSE NoBuffer
         /\ vma_call' = [op |-> "Buffer", ret |-> IF r.ret = "true" THEN "ok" ELSE "throw"]
    /\ UNCHANGED <<deviceVars, rect_call, vma_image, objectVars>>

\* resize(size) on the constructed Buffer
BufferResize(size, ok) ==
    /\ vma_buffer.m_api
    /\ vma_call.ret # "crash"
    /\ LET r == vma_Buffer_resize(vma_buffer, size, ok) IN
         /\ vma_buffer' = r.buf
         /\ vma_call' = [op |-> "resize", ret |-> r.ret]
    /\ UNCHANGED <<deviceVars, rect_call, vma_image, objectVars>>

\* write_in_place(data, offset) on the constructed Buffer
BufferWriteInPlace(data, offset, staging_ok, submit_ok, ub) ==
    /\ vma_buffer.m_api
    /\ vma_call.ret # "crash"
    /\ LET r == vma_Buffer_write_in_place(vma_buffer, data, offset, staging_ok,
                                          submit_ok, ub) IN
         /\ vma_buffer' = r.buf
         /\ vma_call' = [op |-> "write_in_place", ret |-> r.ret]
    /\ UNCHANGED <<deviceVars, rect_call, vma_image, objectVars>>

\* overwrite(data) on the constructed Buffer
BufferOverwrite(data, ok, staging_ok, submit_ok) ==
    /\ vma_buffer.m_api
    /\ vma_call.ret # "crash"
    /\ LET r == vma_Buffer_overwrite(vma_buffer, data, ok, staging_ok, submit_ok) IN
         /\ vma_buffer' = r.buf
         /\ vma_call' = [op |-> "overwrite", ret |-> r.ret]
    /\ UNCHANGED <<deviceVars, rect_call, vma_image, objectVars>>

BufferNext ==
    \/ \E type \in BufferTypes, size \in 0 .. MaxCapacity, ok \in BOOLEAN :
         BufferCtor(type, size, ok)
    \/ \E size \in 0 .. MaxCapacity, ok \in BOOLEAN : BufferResize(size, ok)
    \/ \E data \in BufferWrites, offset \in DeviceSizes, staging_ok \in BOOLEAN,
          submit_ok \in BOOLEAN, ub \in UndefinedOutcomes :
         BufferWriteInPlace(data, offset, staging_ok, submit_ok, ub)
    \/ \E data \in BufferWrites, ok \in BOOLEAN, staging_ok \in BOOLEAN,
          submit_ok \in BOOLEAN :
         BufferOverwrite(data, ok, staging_ok, submit_ok)

\* a Buffer is constructed, then resized and written in any order
BufferSpec == ResourceInit /\ [][BufferNext]_vars

\* -------------------------------------------------------- vma::Image ----
\* mutant: the level count follows the smaller dimension
compute_mip_levels_min(extent) ==
    LET RECURSIVE floor_log2(_)
        floor_log2(n) == IF n <= 1 THEN 0 ELSE 1 + floor_log2(n \div 2)
    IN floor_log2(IF extent[1] <= extent[2] THEN extent[1] ELSE extent[2]) + 1

\* util::compute_mip_levels(extent): floor(log2(max(width, height))) + 1;
\* the logarithm's floor is the number of times the value halves down to 1
compute_mip_levels(extent) ==
    LET RECURSIVE floor_log2(_)
        floor_log2(n) == IF n <= 1 THEN 0 ELSE 1 + floor_log2(n \div 2)
    IN floor_log2(Max(extent[1], extent[2])) + 1

\* vma::Image::resize(extent); ok is the result of vmaCreateImage. The
\* payload m_image is numbered by the allocations made (0 is the identity);
\* levels holds the layout each mip level of the payload is in on the device
vma_Image_resize(img, extent, ok) ==
    LET ext == ensure_positive_extent(extent)
        mipLevels == IF img.mip_mapped THEN compute_mip_levels(ext) ELSE 1
    IN IF ~img.m_api THEN [img |-> img, ret |-> "false"]
       ELSE IF img.m_image # 0 /\ img.m_extent = ext THEN [img |-> img, ret |-> "true"]
       ELSE IF ~ok THEN [img |-> img, ret |-> "false"]
       ELSE [img |-> [img EXCEPT !.m_extent = ext, !.m_mip_levels = mipLevels,
                                 !.m_image = img.m_image + 1,
                                 !.m_layout = "Undefined",
                                 !.levels = [l \in 1 .. mipLevels |-> "Undefined"]],
             ret |-> "true"]

\* a barrier over the mip levels base .. base + count - 1 (levels count from
\* 0, the sequence of their layouts from 1)
Barrier(old, new, base, count) ==
    [cmd |-> "barrier", oldLayout |-> old, newLayout |-> new, base |-> base,
     count |-> count, transition |-> FALSE]
barrier_covers(b, l) == l - 1 >= b.base /\ l - 1 < b.base + b.count

\* a command is recorded in st = [levels, cmds] together with the layouts
\* the levels are in when it executes; a barrier moves the levels it covers
\* to its newLayout
record(st, c) ==
    [levels |-> IF c.cmd = "barrier"
                THEN [l \in DOMAIN st.levels |->
                        IF barrier_covers(c, l) THEN c.newLayout ELSE st.levels[l]]
                ELSE st.levels,
     cmds |-> Append(st.cmds, [c |-> c, before |-> st.levels])]

\* Image::transition(command_buffer, barrier): the barrier covers
\* subresource_range() and is marked as recorded through transition, and
\* the tracked layout becomes its newLayout
Image_transition(img, st, old, new) ==
    [img |-> [img EXCEPT !.m_layout = new],
     st |-> record(st, [Barrier(old, new, 0, img.m_mip_levels)
                          EXCEPT !.transition = TRUE])]

\* mutant: a blitted level is left in TransferDstOptimal
blit_next_mip_no_src(st, src_level, src_offset, dst_offset) ==
    LET s1 == record(st, Barrier("Undefined", "TransferDstOptimal", src_level + 1, 1))
    IN record(s1, [cmd |-> "blit", src |-> src_level, dst |-> src_level + 1,
                   srcLayout |-> "TransferSrcOptimal",
                   dstLayout |-> "TransferDstOptimal",
                   src_offset |-> src_offset, dst_offset |-> dst_offset])

\* MakeMipMaps::blit_next_mip
blit_next_mip(st, src_level, src_offset, dst_offset) ==
    LET s1 == record(st, Barrier("Undefined", "TransferDstOptimal", src_level + 1, 1))
        s2 == record(s1, [cmd |-> "blit", src |-> src_level, dst |-> src_level + 1,
                          srcLayout |-> "TransferSrcOptimal",
                          dstLayout |-> "TransferDstOptimal",
                          src_offset |-> src_offset, dst_offset |-> dst_offset])
    IN record(s2, Barrier("TransferDstOptimal", "TransferSrcOptimal", src_level + 1, 1))

\* MakeMipMaps::operator(): the loop over the levels
RECURSIVE MakeMipMaps_loop(_, _, _, _)
MakeMipMaps_loop(img, st, mip, src_extent) ==
    IF ~(mip + 1 < img.m_mip_levels) THEN st
    ELSE LET dst_extent == <<Max(src_extent[1] \div 2, 1), Max(src_extent[2] \div 2, 1)>>
         IN MakeMipMaps_loop(img,
                             blit_next_mip(st, mip, src_extent, dst_extent),
                             mip + 1, dst_extent)

\* MakeMipMaps::operator()
MakeMipMaps(img, st) ==
    MakeMipMaps_loop(img,
                     record(st, Barrier(img.m_layout, "TransferSrcOptimal", 0, 1)),
                     0, img.m_extent)

\* the layers passed to resize_and_overwrite: n Bitmaps of the given size
\* with size.x * size.y * 4 bytes each, the last of them with another
\* width ("size") or with one byte more ("bytes") when flawed
BitmapFlaws == {"none", "size", "bytes"}
Bitmaps(size, n, flaw) ==
    [k \in 1 .. n |->
       IF k = n /\ flaw = "size"
       THEN [size |-> <<size[1] + 1, size[2]>>, bytes |-> (size[1] + 1) * size[2] * 4]
       ELSE IF k = n /\ flaw = "bytes"
       THEN [size |-> size, bytes |-> size[1] * size[2] * 4 + 1]
       ELSE [size |-> size, bytes |-> size[1] * size[2] * 4]]

\* mutant: the byte length of a layer is not compared
layers_check_size_only(layers) ==
    \A k \in 1 .. Len(layers) : layers[k].size = layers[1].size

\* resize_and_overwrite, lines 1388-1393: every layer has the first
\* layer's size and size.x * size.y * channels_v bytes
layers_check(layers) ==
    LET size == layers[1].size
        layer_size == size[1] * size[2] * 4
    IN \A k \in 1 .. Len(layers) :
          layers[k].size = size /\ layers[k].bytes = layer_size

\* mutant: the layout is read before the resize
original_layout_before_resize(before, resized) == before.m_layout

\* resize_and_overwrite, line 1399: get_layout() after the resize
original_layout(before, resized) == resized.m_layout

\* what can fail inside resize_and_overwrite: vmaCreateImage, the staging
\* Buffer's constructor, or submit_and_wait
ImageFailures == {"none", "alloc", "staging", "submit"}

\* Image::resize_and_overwrite(layers): the Image afterwards, how the call
\* ended and the commands it recorded. usage always has eTransferDst, which
\* the constructor adds. The device executes the commands only when they are
\* submitted
vma_Image_resize_and_overwrite(img, layers, failure) ==
    IF img.m_image = 0 \/ img.layers # Len(layers)
    THEN [img |-> img, ret |-> "false", cmds |-> <<>>]
    ELSE IF ~layers_check(layers) THEN [img |-> img, ret |-> "false", cmds |-> <<>>]
    ELSE
      LET size == layers[1].size
          layer_size == size[1] * size[2] * 4
          r == vma_Image_resize(img, size, failure # "alloc")
      IN IF r.ret # "true" THEN [img |-> img, ret |-> "false", cmds |-> <<>>]
         ELSE IF layer_size = 0 THEN [img |-> r.img, ret |-> "true", cmds |-> <<>>]
         ELSE IF failure = "staging" THEN [img |-> r.img, ret |-> "throw", cmds |-> <<>>]
         ELSE
           LET original == original_layout(img, r.img)
               t1 == Image_transition(r.img, [levels |-> r.img.levels, cmds |-> <<>>],
                                      "Undefined", "TransferDstOptimal")
               copies == [k \in 1 .. Len(layers) |->
                            [c |-> [cmd |-> "copy", layer |-> k - 1,
                                    dstLayout |-> "TransferDstOptimal"],
                             before |-> t1.st.levels]]
               s2 == [t1.st EXCEPT !.cmds = t1.st.cmds \o copies]
               s3 == IF t1.img.m_mip_levels > 1 THEN MakeMipMaps(t1.img, s2) ELSE s2
               current_layout == IF t1.img.m_mip_levels > 1 THEN "TransferSrcOptimal"
                                 ELSE t1.img.m_layout
               final_layout == IF original = "Undefined" THEN "ShaderReadOnlyOptimal"
                               ELSE original
               t4 == Image_transition(t1.img, s3, current_layout, final_layout)
           IN [img |-> [t4.img EXCEPT !.levels = IF failure = "submit" THEN r.img.levels
                                                ELSE t4.st.levels],
               ret |-> IF failure = "submit" THEN "false" ELSE "true",
               cmds |-> t4.st.cmds]

\* Image::Image(api, create_info, extent): throws when resize fails, and
\* then there is no Image
ImageCtor(mip_mapped, layers, extent, ok) ==
    /\ vma_image = NoImageObject
    /\ LET r == vma_Image_resize([NoImageObject EXCEPT !.m_api = TRUE,
                                                       !.mip_mapped = mip_mapped,
                                                       !.layers = layers],
                                 extent, ok) IN
         /\ vma_image' = IF r.ret = "true" THEN r.img ELSE NoImageObject
         /\ vma_call' = [op |-> "Image", ret |-> IF r.ret = "true" THEN "ok" ELSE "throw",
                         cmds |-> <<>>]
    /\ UNCHANGED <<deviceVars, rect_call, vma_buffer, objectVars>>

\* resize(extent) on the Image, constructed or not
ImageResize(extent, ok) ==
    /\ LET r == vma_Image_resize(vma_image, extent, ok) IN
         /\ r.img.m_image <= MaxAllocations
         /\ vma_image' = r.img
         /\ vma_call' = [op |-> "resize", ret |-> r.ret, cmds |-> <<>>]
    /\ UNCHANGED <<deviceVars, rect_call, vma_buffer, objectVars>>

\* transition(command_buffer, barrier) on the constructed Image, in a
\* command buffer that is then executed
ImageTransition(old, new) ==
    /\ vma_image.m_api
    /\ LET t == Image_transition(vma_image, [levels |-> vma_image.levels, cmds |-> <<>>],
                                 old, new) IN
         /\ vma_image' = [t.img EXCEPT !.levels = t.st.levels]
         /\ vma_call' = [op |-> "transition", ret |-> "ok", cmds |-> t.st.cmds]
    /\ UNCHANGED <<deviceVars, rect_call, vma_buffer, objectVars>>

\* resize_and_overwrite(layers) on the Image, constructed or not
ImageResizeAndOverwrite(size, n, flaw, failure) ==
    /\ LET r == vma_Image_resize_and_overwrite(vma_image, Bitmaps(size, n, flaw), failure) IN
         /\ r.img.m_image <= MaxAllocations
         /\ vma_image' = r.img
         /\ vma_call' = [op |-> "resize_and_overwrite", arg |-> <<n, flaw>>,
                         ret |-> r.ret, cmds |-> r.cmds]
    /\ UNCHANGED <<deviceVars, rect_call, vma_buffer, objectVars>>

\* the layouts an application moves its image to
AppLayouts == {"General", "ShaderReadOnlyOptimal"}
\* bitmap sizes with small sides, a zero side included
SmallSizes == (0 .. 2) \X (0 .. 2)
\* extents with sides up to MaxDim
MipExtents == (1 .. MaxDim) \X (1 .. MaxDim)

ImageNext ==
    \/ \E mip_mapped \in BOOLEAN, layers \in 1 .. 2, extent \in SmallSizes,
          ok \in BOOLEAN :
         ImageCtor(mip_mapped, layers, extent, ok)
    \/ \E extent \in SmallSizes, ok \in BOOLEAN : ImageResize(extent, ok)
    \/ \E new \in AppLayouts : ImageTransition("Undefined", new)
    \/ \E size \in SmallSizes, n \in 0 .. 2, flaw \in BitmapFlaws,
          failure \in ImageFailures :
         /\ n = 0 => flaw = "none"
         /\ ImageResizeAndOverwrite(size, n, flaw, failure)

MipNext ==
    \/ \E mip_mapped \in BOOLEAN, extent \in MipExtents :
         ImageCtor(mip_mapped, 1, extent, TRUE)
    \/ \E extent \in MipExtents : ImageResize(extent, TRUE)
    \/ \E new \in AppLayouts : ImageTransition("Undefined", new)
    \/ \E size \in MipExtents, failure \in {"none", "submit"} :
         ImageResizeAndOverwrite(size, 1, "none", failure)

\* an Image is constructed with small extents, then resized, moved to
\* other layouts and overwritten, with any failure and any flaw in the layers
ImageSpec == ResourceInit /\ [][ImageNext]_vars

\* a single-layer Image is constructed with extents up to MaxDim, then
\* resized, moved and overwritten with well-formed layers
MipSpec == ResourceInit /\ [][MipNext]_vars

\* -------------------------------------------- RenderDevice lifetime ----
\* a step of Impl's constructor: the member holds its object, or the step
\* throws and the members are destroyed
ImplCtorStep(outcome) ==
    /\ impl.phase = "constructing"
    /\ LET step == CtorSteps[impl.step]
           holds == IF outcome # "throw" /\ step # "select_gpu"
                    THEN impl.holds \cup {step} ELSE impl.holds
       IN /\ outcome \in CtorOutcomes(step)
          /\ impl' = IF outcome = "ok"
                     THEN [impl EXCEPT !.holds = holds, !.step = impl.step + 1,
                                       !.phase = IF impl.step = Len(CtorSteps)
                                                 THEN "constructed" ELSE "constructing"]
                     ELSE [impl EXCEPT !.holds = holds, !.phase = "destroying",
                                       !.cursor = Len(ImplMembers)]
    /\ UNCHANGED <<deviceVars, rect_call, vmaVars, ttfVars>>

\* the constructed device creates a descriptor pool or a scratch buffer
ImplUse(member) ==
    /\ impl.phase = "constructed"
    /\ member \notin impl.holds
    /\ impl' = [impl EXCEPT !.holds = impl.holds \cup {member}]
    /\ UNCHANGED <<deviceVars, rect_call, vmaVars, ttfVars>>

\* RenderDevice::Deleter deletes the Impl
ImplDelete ==
    /\ impl.phase = "constructed"
    /\ impl' = [impl EXCEPT !.phase = "destroying", !.cursor = Len(ImplMembers)]
    /\ UNCHANGED <<deviceVars, rect_call, vmaVars, ttfVars>>

\* the next member, last declared first, is destroyed: a member that holds
\* an object destroys it, the DeviceBlock by waiting for the device
ImplDestroyMember ==
    /\ impl.phase = "destroying"
    /\ LET member == ImplMembers[impl.cursor] IN
         impl' = [impl EXCEPT
                    !.events = IF member \in impl.holds
                               THEN Append(impl.events,
                                           IF member = "m_device_block" THEN "waitIdle"
                                           ELSE member)
                               ELSE impl.events,
                    !.holds = impl.holds \ {member},
                    !.cursor = impl.cursor - 1,
                    !.phase = IF impl.cursor = 1 THEN "destroyed" ELSE "destroying"]
    /\ UNCHANGED <<deviceVars, rect_call, vmaVars, ttfVars>>

LifetimeNext ==
    \/ \E outcome \in {"ok", "throw", "throw_holding"} : ImplCtorStep(outcome)
    \/ \E member \in {"m_descriptor_allocators", "m_buffer_allocators"} : ImplUse(member)
    \/ ImplDelete
    \/ ImplDestroyMember

\* the constructor's body runs from its start; the other variables are what
\* the constructor produces when it completes, and no action here reads them
LifetimeInit ==
    /\ Impl(RenderDeviceCreateInfo) /\ fb = <<1, 1>> /\ m_present_modes = {"Fifo"}
    /\ impl = ImplUnconstructed

\* a RenderDevice is constructed, with any step throwing, used and destroyed
LifetimeSpec == LifetimeInit /\ [][LifetimeNext]_vars

\* ------------------------------------------------------ ttf: atlas ----
\* std::numeric_limits<int>::max()
IntMax == 2147483647
\* BuildAtlas::max_size_v
max_size_v == 8 * 1024

\* pot(in): the loop's doublings from ret
RECURSIVE pot_loop(_, _)
pot_loop(ret, in) == IF ret < in /\ ret < IntMax THEN pot_loop(2 * ret, in) ELSE ret
pot(in) == pot_loop(1, in)

\* the sizes of the bitmaps load_slot renders (a glyph without pixels, or a
\* codepoint that fails to load, gives <<0, 0>>), two of them huge
SlotSizes == {<<0, 0>>, <<1, 2>>, <<2, 1>>, <<3, 3>>, <<5000, 1>>, <<1, 5000>>}
Paddings == (0 .. 1) \X (0 .. 1)
NoRect == [lt |-> <<0, 0>>, rb |-> <<0, 0>>]

\* BuildAtlas::load_entries: the atlas width from the widest glyph and
\* ceil(sqrt(number of entries)) columns
load_entries(slots, pad) ==
    LET n == Len(slots)
        widths == {slots[k][1] : k \in 1 .. n} \cup {0}
        m_max_glyph_width == CHOOSE w \in widths : \A v \in widths : v <= w
        columns == CHOOSE c \in 0 .. n : c * c >= n /\ \A d \in 0 .. n : d * d >= n => c <= d
    IN pot(((m_max_glyph_width + pad[1]) * columns) + pad[1])

\* mutant: the next line starts right below the tallest glyph
next_line_no_pad(st, pad) ==
    [st EXCEPT !.m_cursor = <<pad[1], st.m_cursor[2] + st.m_line_height>>,
               !.m_line_height = 0]

\* BuildAtlas::next_line
next_line(st, pad) ==
    [st EXCEPT !.m_cursor = <<pad[1], st.m_cursor[2] + st.m_line_height + pad[2]>>,
               !.m_line_height = 0]

\* BuildAtlas::store_pixels, from entry k on: an entry without pixels is
\* skipped and keeps its empty rectangle
RECURSIVE store_pixels_loop(_, _, _, _, _)
store_pixels_loop(slots, pad, width, k, st) ==
    IF k > Len(slots) THEN st
    ELSE IF slots[k][1] * slots[k][2] = 0
    THEN store_pixels_loop(slots, pad, width, k + 1, st)
    ELSE LET s1 == IF st.m_cursor[1] + slots[k][1] + pad[1] > width
                   THEN next_line(st, pad) ELSE st
             uv_rect == [lt |-> s1.m_cursor,
                         rb |-> <<s1.m_cursor[1] + slots[k][1],
                                  s1.m_cursor[2] + slots[k][2]>>]
         IN store_pixels_loop(slots, pad, width, k + 1,
              [m_cursor |-> <<s1.m_cursor[1] + slots[k][1] + pad[1], s1.m_cursor[2]>>,
               m_line_height |-> Max(s1.m_line_height, slots[k][2]),
               rects |-> [s1.rects EXCEPT ![k] = uv_rect]])

\* BuildAtlas::store_pixels: the rectangles and the packed height
store_pixels(slots, pad, width) ==
    LET st == store_pixels_loop(slots, pad, width, 1,
                                [m_cursor |-> pad, m_line_height |-> 0,
                                 rects |-> [k \in 1 .. Len(slots) |-> NoRect]])
    IN [rects |-> st.rects, height |-> st.m_cursor[2] + st.m_line_height + pad[2]]

\* BuildAtlas::operator() with finalize, for a face that is loaded or not
EmptyAtlas == [empty |-> TRUE, size |-> <<0, 0>>, rects |-> <<>>]
BuildAtlas(loaded, slots, pad) ==
    IF ~loaded THEN EmptyAtlas
    ELSE LET width == load_entries(slots, pad)
             packed == store_pixels(slots, pad, width)
         IN IF width > max_size_v \/ packed.height > max_size_v THEN EmptyAtlas
            ELSE [empty |-> FALSE, size |-> <<width, pot(packed.height)>>,
                  rects |-> packed.rects]

\* build_atlas is called on a loaded Typeface whose glyphs render with the
\* sizes slots
BuildAtlasCall(slots, pad) ==
    /\ ttf_call.op = "none"
    /\ ttf_call' = [op |-> "build_atlas", slots |-> slots, pad |-> pad,
                    ret |-> BuildAtlas(TRUE, slots, pad)]
    /\ UNCHANGED <<deviceVars, rect_call, vmaVars, impl, typefaces, g_data, ft_libs>>

AtlasNext ==
    \E slots \in SeqsUpTo(SlotSizes, MaxGlyphs), pad \in Paddings : BuildAtlasCall(slots, pad)

\* build_atlas called with any codepoints and padding of the bounds
AtlasSpec == ResourceInit /\ [][AtlasNext]_vars

\* --------------------------------------------------- ttf: Typeface ----
\* mutant: the weak_ptr never gives the Lib
weak_lock_expired(g, libs) == 0

\* g_data.lib.lock(): the Lib the weak_ptr refers to while a shared_ptr
\* still owns it, else none
weak_lock(g, libs) == IF g.lib # 0 /\ libs[g.lib].refs > 0 THEN g.lib ELSE 0

\* Typeface::is_loaded
is_loaded(tf) == tf.m_impl /\ tf.face # 0

\* the number the next font byte buffer, and the face made from it, gets
next_font(tf) == IF tf.font = 1 THEN 2 ELSE 1

ttf_running == ttf_call.ret # "crash"
TtfUnchanged == UNCHANGED <<deviceVars, rect_call, vmaVars, impl>>

\* Typeface::load(font) is entered: the argument's bytes are allocated
LoadBegin(t) ==
    /\ ttf_running
    /\ typefaces[t].pc = "idle"
    /\ typefaces' = [typefaces EXCEPT
                       ![t].param = next_font(typefaces[t]),
                       ![t].live = typefaces[t].live \cup {next_font(typefaces[t])},
                       ![t].pc = IF typefaces[t].m_impl THEN "check_lib" ELSE "make_lib"]
    /\ UNCHANGED <<ttf_call, g_data, ft_libs>>
    /\ TtfUnchanged

\* get_or_make_lib: the scoped_lock is taken
GetOrMakeLibLock(t) ==
    /\ typefaces[t].pc = "make_lib"
    /\ g_data.mutex = 0
    /\ g_data' = [g_data EXCEPT !.mutex = t]
    /\ typefaces' = [typefaces EXCEPT ![t].pc = "in_make_lib"]
    /\ UNCHANGED <<ttf_call, ft_libs>>
    /\ TtfUnchanged

\* get_or_make_lib under the lock, as Impl's member initialiser: the Lib
\* still owned, else a new one when FT_Init_FreeType succeeds, else none
GetOrMakeLib(t, init_ok) ==
    /\ typefaces[t].pc = "in_make_lib"
    /\ LET ret == weak_lock(g_data, ft_libs)
           p_lib == CHOOSE l \in LibIds :
                       /\ ft_libs[l].state \in {"none", "done"}
                       /\ \A k \in LibIds : ft_libs[k].state \in {"none", "done"} => l <= k
       IN IF ret # 0
          THEN /\ ft_libs' = [ft_libs EXCEPT ![ret].refs = ft_libs[ret].refs + 1]
               /\ g_data' = [g_data EXCEPT !.mutex = 0]
               /\ typefaces' = [typefaces EXCEPT ![t].m_impl = TRUE, ![t].lib = ret,
                                                 ![t].pc = "check_lib"]
          ELSE IF init_ok
          THEN /\ \E l \in LibIds : ft_libs[l].state \in {"none", "done"}
               /\ ft_libs' = [ft_libs EXCEPT ![p_lib] = [state |-> "alive", refs |-> 1]]
               /\ g_data' = [lib |-> p_lib, mutex |-> 0]
               /\ typefaces' = [typefaces EXCEPT ![t].m_impl = TRUE, ![t].lib = p_lib,
                                                 ![t].pc = "check_lib"]
          ELSE /\ g_data' = [g_data EXCEPT !.mutex = 0]
               /\ typefaces' = [typefaces EXCEPT ![t].m_impl = TRUE, ![t].lib = 0,
                                                 ![t].pc = "check_lib"]
               /\ UNCHANGED ft_libs
    /\ UNCHANGED ttf_call
    /\ TtfUnchanged

\* load, line 208: without a Lib it returns false, and the argument dies
LoadCheckLib(t) ==
    /\ typefaces[t].pc = "check_lib"
    /\ IF typefaces[t].lib = 0
       THEN /\ typefaces' = [typefaces EXCEPT
                               ![t].live = typefaces[t].live \ {typefaces[t].param},
                               ![t].param = 0, ![t].pc = "idle"]
            /\ ttf_call' = [op |-> "load", t |-> t, ret |-> "false"]
       ELSE /\ typefaces' = [typefaces EXCEPT ![t].pc = "load_face"]
            /\ UNCHANGED ttf_call
    /\ UNCHANGED <<g_data, ft_libs>>
    /\ TtfUnchanged

\* load_face: the scoped_lock is taken
LoadFaceLock(t) ==
    /\ typefaces[t].pc = "load_face"
    /\ g_data.mutex = 0
    /\ g_data' = [g_data EXCEPT !.mutex = t]
    /\ typefaces' = [typefaces EXCEPT ![t].pc = "in_load_face"]
    /\ UNCHANGED <<ttf_call, ft_libs>>
    /\ TtfUnchanged

\* load_face under the lock: FT_New_Memory_Face opens a face on the
\* argument's bytes, or fails and load returns false
LoadFace(t, face_ok) ==
    /\ typefaces[t].pc = "in_load_face"
    /\ g_data' = [g_data EXCEPT !.mutex = 0]
    /\ IF face_ok
       THEN /\ typefaces' = [typefaces EXCEPT
                               ![t].open = typefaces[t].open \cup {typefaces[t].param},
                               ![t].pc = "move_font"]
            /\ UNCHANGED ttf_call
       ELSE /\ typefaces' = [typefaces EXCEPT
                               ![t].live = typefaces[t].live \ {typefaces[t].param},
                               ![t].param = 0, ![t].pc = "idle"]
            /\ ttf_call' = [op |-> "load", t |-> t, ret |-> "false"]
    /\ UNCHANGED ft_libs
    /\ TtfUnchanged

\* load, line 213: m_impl->font = std::move(font) releases the bytes font
\* held and takes the argument's
LoadMoveFont(t) ==
    /\ typefaces[t].pc = "move_font"
    /\ typefaces' = [typefaces EXCEPT
                       ![t].live = typefaces[t].live \ {typefaces[t].font},
                       ![t].font = typefaces[t].param,
                       ![t].pc = "set_face"]
    /\ UNCHANGED <<ttf_call, g_data, ft_libs>>
    /\ TtfUnchanged

\* load, lines 214-217: m_impl->face = face closes the face it held
LoadSetFace(t, kerning) ==
    /\ typefaces[t].pc = "set_face"
    /\ typefaces' = [typefaces EXCEPT
                       ![t].open = typefaces[t].open \ {typefaces[t].face},
                       ![t].face = typefaces[t].param,
                       ![t].has_kerning = kerning,
                       ![t].param = 0,
                       ![t].pc = "idle"]
    /\ ttf_call' = [op |-> "load", t |-> t, ret |-> "true"]
    /\ UNCHANGED <<g_data, ft_libs>>
    /\ TtfUnchanged

\* the Typeface is destroyed: its Impl's members go in the reverse of their
\* declaration, first the face
DestroyTypeface(t) ==
    /\ ttf_running
    /\ typefaces[t].pc = "idle"
    /\ typefaces[t].m_impl
    /\ typefaces' = [typefaces EXCEPT
                       ![t].open = typefaces[t].open \ {typefaces[t].face},
                       ![t].face = 0, ![t].pc = "d_font"]
    /\ UNCHANGED <<ttf_call, g_data, ft_libs>>
    /\ TtfUnchanged

\* then the font bytes
DestroyFont(t) ==
    /\ typefaces[t].pc = "d_font"
    /\ typefaces' = [typefaces EXCEPT
                       ![t].live = typefaces[t].live \ {typefaces[t].font},
                       ![t].font = 0, ![t].pc = "d_lib"]
    /\ UNCHANGED <<ttf_call, g_data, ft_libs>>
    /\ TtfUnchanged

\* then the shared_ptr to the Lib: the last owner is to run the deleter,
\* and from now on the weak_ptr gives nothing
DestroyLib(t) ==
    /\ typefaces[t].pc = "d_lib"
    /\ LET lib == typefaces[t].lib IN
         IF lib = 0
         THEN /\ typefaces' = [typefaces EXCEPT ![t] = NoTypeface]
              /\ UNCHANGED ft_libs
         ELSE IF ft_libs[lib].refs > 1
         THEN /\ ft_libs' = [ft_libs EXCEPT ![lib].refs = ft_libs[lib].refs - 1]
              /\ typefaces' = [typefaces EXCEPT ![t] = NoTypeface]
         ELSE /\ ft_libs' = [ft_libs EXCEPT ![lib] = [state |-> "tearing", refs |-> 0]]
              /\ typefaces' = [typefaces EXCEPT ![t].pc = "d_done"]
    /\ UNCHANGED <<ttf_call, g_data>>
    /\ TtfUnchanged

\* Lib::Deleter: FT_Done_FreeType returns
DoneFreeType(t) ==
    /\ typefaces[t].pc = "d_done"
    /\ ft_libs' = [ft_libs EXCEPT ![typefaces[t].lib].state = "done"]
    /\ typefaces' = [typefaces EXCEPT ![t] = NoTypeface]
    /\ UNCHANGED <<ttf_call, g_data>>
    /\ TtfUnchanged

\* the member functions that read the face. build_atlas dereferences
\* m_impl before any test, which is undefined without an Impl (ub is what
\* the build makes of it); with an Impl and no face FreeType refuses the
\* null face
TypefaceOps == {"build_atlas", "load_slot", "has_kerning", "get_kerning", "get_name"}
Typeface_call(tf, op, ub) ==
    IF op = "build_atlas"
    THEN IF ~tf.m_impl THEN ub
         ELSE IF tf.face = 0 THEN "empty" ELSE "atlas"
    ELSE IF op = "load_slot" THEN (IF ~is_loaded(tf) THEN "false" ELSE "slot")
    ELSE IF op = "has_kerning"
    THEN (IF ~is_loaded(tf) THEN "false" ELSE IF tf.has_kerning THEN "true" ELSE "false")
    ELSE IF op = "get_kerning"
    THEN (IF ~(is_loaded(tf) /\ tf.has_kerning) THEN "zero" ELSE "kerning")
    ELSE IF ~tf.m_impl THEN "empty"
         ELSE IF tf.face = 0 THEN "empty" ELSE "name"

TypefaceCall(t, op, ub) ==
    /\ ttf_running
    /\ typefaces[t].pc = "idle"
    /\ ttf_call' = [op |-> op, t |-> t, loaded |-> is_loaded(typefaces[t]),
                    ret |-> Typeface_call(typefaces[t], op, ub)]
    /\ UNCHANGED <<typefaces, g_data, ft_libs>>
    /\ TtfUnchanged

\* the steps of thread t's loads and destructions
TypefaceSteps(t) ==
    \/ LoadBegin(t)
    \/ GetOrMakeLibLock(t)
    \/ \E init_ok \in BOOLEAN : GetOrMakeLib(t, init_ok)
    \/ LoadCheckLib(t)
    \/ LoadFaceLock(t)
    \/ \E face_ok \in BOOLEAN : LoadFace(t, face_ok)
    \/ LoadMoveFont(t)
    \/ \E kerning \in BOOLEAN : LoadSetFace(t, kerning)
    \/ DestroyTypeface(t)
    \/ DestroyFont(t)
    \/ DestroyLib(t)
    \/ DoneFreeType(t)

TypefaceNext ==
    \/ TypefaceSteps(1)
    \/ \E op \in TypefaceOps, ub \in {"crash", "garbage"} : TypefaceCall(1, op, ub)

TypefaceMTNext == \E t \in FaceThreads : TypefaceSteps(t)

\* one thread loads fonts into its Typeface, calls it and destroys it
TypefaceSpec == ResourceInit /\ [][TypefaceNext]_vars

\* every thread loads fonts into its Typeface and destroys it
TypefaceMTSpec == ResourceInit /\ [][TypefaceMTNext]_vars

\* C33: build_atlas, load_slot, has_kerning, get_kerning and get_name called
\* on a Typeface without a loaded face return an empty result (an empty
\* Atlas, false, the zero vector, an empty name) and dereference nothing
\* that is missing.
C33_EmptyWithoutFace ==
    (ttf_call.op \in TypefaceOps /\ ~ttf_call.loaded)
        => ttf_call.ret \in {"empty", "false", "zero"}

\* the calls that do answer with an empty result: every one of them on a
\* Typeface whose only load failed
C33_AfterFailedLoad ==
    /\ ttf_call.op \in TypefaceOps
    /\ ~ttf_call.loaded
    /\ typefaces[1].m_impl
    /\ ttf_call.ret \in {"empty", "false", "zero"}

\* C34: the font bytes a face was created from are never freed while the
\* face is open, and the library the face belongs to is not released
\* before the face is closed; the face and font of a Typeface that is not
\* inside a load or a destruction are the ones of its last successful load.
C34_FontOutlivesFace ==
    \A t \in FaceThreads :
        /\ \A face \in typefaces[t].open :
              /\ face \in typefaces[t].live
              /\ typefaces[t].lib # 0
              /\ ft_libs[typefaces[t].lib].state = "alive"
        /\ typefaces[t].pc = "idle" =>
              /\ typefaces[t].open = {typefaces[t].face} \ {0}
              /\ typefaces[t].live = {typefaces[t].font} \ {0}
              /\ typefaces[t].face = typefaces[t].font

\* a first load has succeeded and a second load has opened its face
C34_SecondLoad ==
    /\ typefaces[1].pc = "move_font"
    /\ typefaces[1].face # 0
    /\ typefaces[1].open = {1, 2}

\* the Typefaces whose Impl owns Lib l
lib_holders(l) == {t \in FaceThreads : typefaces[t].lib = l /\ typefaces[t].pc # "d_done"}

\* C35 (as stated): with Typefaces loaded and destroyed on several threads
\* at most one FreeType library instance exists at any time, being torn
\* down included.
C35_OneLibrary ==
    Cardinality({l \in LibIds : ft_libs[l].state \in {"alive", "tearing"}}) <= 1

\* C35: at most one FreeType library instance is owned at any time, every
\* Impl that owns one owns that same instance, which is the one g_data
\* refers to, an instance is initialised only when no Impl owns the previous
\* one (which may still be inside FT_Done_FreeType), and the bodies of
\* get_or_make_lib and load_face run one at a time, under the mutex.
C35_SharedLibrary ==
    /\ Cardinality({l \in LibIds : ft_libs[l].state = "alive"}) <= 1
    /\ \A l \in LibIds :
          /\ ft_libs[l].refs = Cardinality(lib_holders(l))
          /\ ft_libs[l].state = "alive" <=> lib_holders(l) # {}
          /\ ft_libs[l].state = "alive" => g_data.lib = l
    /\ \A t \in FaceThreads :
          typefaces[t].pc \in {"in_make_lib", "in_load_face"} <=> g_data.mutex = t

\* two loaded Typefaces share the library instance
C35_Witness ==
    /\ \A t \in FaceThreads : typefaces[t].pc = "idle" /\ typefaces[t].face # 0
    /\ typefaces[1].lib = typefaces[2].lib
    /\ ft_libs[typefaces[1].lib].refs = 2

\* ------------------------------------------------ ttf: push_layouts ----
\* Codepoint::Tofu, '\n' and two letters
Tofu == 0
Newline == 10
Chars == {Newline, 97, 98}
Texts == UNION {[1 .. n -> Chars] : n \in 0 .. MaxText}

\* a Glyph: where it is in the span (0: the static null_v), its code point,
\* its index in the face and its advance
null_v == [at |-> 0, codepoint |-> Tofu, index |-> 0, advance |-> <<0, 0>>]
GlyphLists ==
    { <<>>,
      <<[at |-> 1, codepoint |-> 97, index |-> 1, advance |-> <<2, 0>>],
        [at |-> 2, codepoint |-> 98, index |-> 2, advance |-> <<3, 0>>]>>,
      <<[at |-> 1, codepoint |-> Tofu, index |-> 3, advance |-> <<1, 0>>],
        [at |-> 2, codepoint |-> 97, index |-> 1, advance |-> <<2, 0>>]>> }

\* std::ranges::find_if: the first position that holds, or the end
find_if(glyphs, codepoint) ==
    IF \E i \in 1 .. Len(glyphs) : glyphs[i].codepoint = codepoint
    THEN CHOOSE i \in 1 .. Len(glyphs) :
            /\ glyphs[i].codepoint = codepoint
            /\ \A j \in 1 .. i - 1 : glyphs[j].codepoint # codepoint
    ELSE Len(glyphs) + 1

glyph_or_fallback(glyphs, codepoint, use_tofu) ==
    LET it == find_if(glyphs, codepoint)
        it2 == IF it = Len(glyphs) + 1 /\ use_tofu THEN find_if(glyphs, Tofu) ELSE it
    IN IF it2 = Len(glyphs) + 1 THEN null_v ELSE glyphs[it2]

\* Typeface::get_kerning: zero without kerning, else what FreeType gives
\* for the pair (delta, the same for every pair here)
get_kerning(face, left, right) ==
    IF ~(face.loaded /\ face.has_kerning) THEN <<0, 0>> ELSE <<face.delta, 0>>

vec_add(a, b) == <<a[1] + b[1], a[2] + b[2]>>

\* one turn of the loop of push_layouts
push_layouts_step(st, c, input, face, use_tofu) ==
    IF c = Newline
    THEN [st EXCEPT !.baseline = <<0, st.baseline[2] - input.n_line_height * input.height>>]
    ELSE LET glyph == glyph_or_fallback(input.glyphs, c, use_tofu)
             baseline == IF st.previous # <<>>
                         THEN vec_add(st.baseline,
                                      get_kerning(face, st.previous[1].index, glyph.index))
                         ELSE st.baseline
         IN [out |-> Append(st.out, [glyph |-> glyph, baseline |-> baseline]),
             baseline |-> vec_add(baseline, glyph.advance),
             previous |-> <<glyph>>]

RECURSIVE push_layouts_loop(_, _, _, _, _)
push_layouts_loop(st, i, input, face, use_tofu) ==
    IF i > Len(input.text) THEN st
    ELSE push_layouts_loop(push_layouts_step(st, input.text[i], input, face, use_tofu),
                           i + 1, input, face, use_tofu)

\* Typeface::push_layouts: the output vector and the returned baseline
push_layouts(out, input, face, use_tofu) ==
    IF ~face.loaded \/ input.text = <<>> \/ input.glyphs = <<>>
    THEN [out |-> out, ret |-> <<0, 0>>]
    ELSE LET st == push_layouts_loop([out |-> out, baseline |-> <<0, 0>>, previous |-> <<>>],
                                     1, input, face, use_tofu)
         IN [out |-> st.out, ret |-> st.baseline]

\* the layouts already in the output vector before the call
stale == [glyph |-> null_v, baseline |-> <<7, 7>>]

PushLayoutsCall(out, input, face, use_tofu) ==
    /\ ttf_call.op = "none"
    /\ ttf_call' = [op |-> "push_layouts", out |-> out, input |-> input, face |-> face,
                    use_tofu |-> use_tofu,
                    result |-> push_layouts(out, input, face, use_tofu)]
    /\ UNCHANGED <<typefaces, g_data, ft_libs>>
    /\ TtfUnchanged

LayoutNext ==
    \E out \in {<<>>, <<stale>>}, text \in Texts, glyphs \in GlyphLists,
       height \in 1 .. 2, n_line_height \in 1 .. 2,
       loaded \in BOOLEAN, delta \in -1 .. 1, use_tofu \in BOOLEAN :
        PushLayoutsCall(out,
                        [text |-> text, glyphs |-> glyphs, height |-> height,
                         n_line_height |-> n_line_height],
                        [loaded |-> loaded, has_kerning |-> delta # 0, delta |-> delta],
                        use_tofu)

\* push_layouts is called once, on any text and glyph list
LayoutSpec == ResourceInit /\ [][LayoutNext]_vars

\* the characters of text[1 .. i] that are not '\n'
RECURSIVE printed(_, _)
printed(text, i) ==
    IF i = 0 THEN 0 ELSE printed(text, i - 1) + (IF text[i] = Newline THEN 0 ELSE 1)

\* C36: on a loaded face with non-empty text and glyphs push_layouts appends
\* one GlyphLayout per character other than '\n', in text order, and leaves
\* the entries already there; the first glyph of every line is at baseline
\* x = 0, with y lowered by n_line_height * height per '\n' before it; the
\* baseline after the last character is returned. Otherwise nothing is
\* appended and the zero vector is returned.
C36_PushLayouts ==
    ttf_call.op = "push_layouts" =>
      LET in == ttf_call.input
          text == in.text
          old == ttf_call.out
          out == ttf_call.result.out
          line == in.n_line_height * in.height
          lines_before(i) == (i - 1) - printed(text, i - 1)
      IN IF ttf_call.face.loaded /\ text # <<>> /\ in.glyphs # <<>>
         THEN /\ Len(out) = Len(old) + printed(text, Len(text))
              /\ SubSeq(out, 1, Len(old)) = old
              /\ \A i \in 1 .. Len(text) :
                    text[i] # Newline =>
                      LET layout == out[Len(old) + printed(text, i)] IN
                        /\ layout.glyph = glyph_or_fallback(in.glyphs, text[i], ttf_call.use_tofu)
                        /\ layout.baseline[2] = 0 - lines_before(i) * line
                        /\ (i = 1 \/ text[i - 1] = Newline) => layout.baseline[1] = 0
              /\ ttf_call.result.ret[2] = 0 - lines_before(Len(text) + 1) * line
              /\ text[Len(text)] = Newline => ttf_call.result.ret[1] = 0
              /\ text[Len(text)] # Newline =>
                    ttf_call.result.ret = vec_add(out[Len(out)].baseline, out[Len(out)].glyph.advance)
         ELSE /\ out = old
              /\ ttf_call.result.ret = <<0, 0>>

\* the same without kerning between the last glyph of a line and the first
\* of the next: it holds in every call whose face has no kerning
C36_WithoutKerning ==
    (ttf_call.op = "push_layouts" /\ ~ttf_call.face.has_kerning) => C36_PushLayouts

\* the render thread keeps running inside a call, and the queue executes
\* what was submitted to it
RenderStep ==
    \/ RenderWait \/ RenderLock \/ RenderAcquire \/ RenderOutOfDate \/ RenderRecord
    \/ RenderLock2 \/ RenderSubmit \/ RenderPresent \/ RenderFinish
LiveSpec ==
    /\ Init /\ [][Next]_vars
    /\ WF_vars(RenderStep)
    /\ \A i \in Slots : WF_vars(\E s \in submitted : s.cmd = i /\ GpuComplete(s))

\* ------------------------------------------------------------ claims ----
\* a step resets slot i's resources or (re)records its command buffer: the
\* command buffer is begun, the slot's fence is reset for a new recording,
\* or the slot's pools or scratch cursors are reset
SlotTouched(i) ==
    \/ ~m_command_buffers[i].recording /\ m_command_buffers'[i].recording
    \/ m_syncs[i].drawn /\ ~m_syncs'[i].drawn
    \/ /\ m_descriptor_allocators'[i] # m_descriptor_allocators[i]
       /\ m_descriptor_allocators'[i].m_index = 0
       /\ \A p \in DOMAIN m_descriptor_allocators'[i].m_pools :
             m_descriptor_allocators'[i].m_pools[p] = 0
    \/ \E u \in Usages : m_buffer_allocators'[i][u].index < m_buffer_allocators[i][u].index

\* C1: a step that resets slot i's pools and cursors, begins its command
\* buffer or re-records it starts with fence drawn[i] signalled and with no
\* submission of slot i pending.
C1_ResetOnlyAfterFence ==
    [][\A i \in Slots : SlotTouched(i) => (m_syncs[i].drawn /\ ~Pending(i))]_vars

\* C1 witness: next_frame has reset and begun slot 0 again, after a full
\* round of frames, while the last slot's submission is still pending
C1_Witness ==
    /\ lastCall.op = "next_frame" /\ lastCall.ret = "ok"
    /\ m_frame_index = 0 /\ m_current_cmd = 0 /\ m_command_buffers[0].recording
    /\ Pending(RESOURCE_BUFFERING - 1)

\* C2: the fences start signalled; between API calls every fence is
\* signalled or a pending submission will signal it; and an unsignalled
\* fence is eventually signalled, so the wait of next_frame succeeds.
C2_FenceEventuallySignalled ==
    /\ \A i \in Slots : m_syncs[i].drawn
    /\ [](pc = "idle" =>
           \A i \in Slots : m_syncs[i].drawn \/ \E s \in submitted : s.fence = i)
    /\ \A i \in Slots : (~m_syncs[i].drawn) ~> m_syncs[i].drawn

\* C2 witness: between two calls, a fence is unsignalled with its
\* submission pending
C2_Witness ==
    /\ pc = "idle"
    /\ \E i \in Slots : ~m_syncs[i].drawn /\ \E s \in submitted : s.fence = i

C4_ImageHeldOnlyInsideRender ==
    /\ [](m_swapchain.m_image_index # NoImage =>
             pc \in {"r_record", "r_lock2", "r_submit", "r_present"})
    /\ [](pc \in {"idle", "r_wait", "r_lock", "r_acquire"} =>
             m_swapchain.m_image_index = NoImage)
    /\ [][(m_swapchain.m_image_index # NoImage
            /\ m_swapchain'.m_image_index # m_swapchain.m_image_index)
          => (pc = "r_present" /\ m_swapchain'.m_image_index = NoImage)]_vars

\* C4 witness: in a later frame, an acquired image is about to be presented
C4_Witness ==
    /\ pc = "r_present" /\ m_swapchain.m_image_index # NoImage /\ m_frame_index = 1

\* C5: once render has recorded the frame, the backbuffer barriers go
\* Undefined -> [TransferDstOptimal if a frame image was passed] ->
\* [AttachmentOptimal if ImGui is rendered] -> PresentSrcKHR, each barrier
\* starting from the layout the previous one ended in, and the tracked
\* layout at submit is PresentSrcKHR.
C5_BackbufferLayouts ==
    pc \in {"r_lock2", "r_submit", "r_present", "r_finish"} =>
        LET layouts == <<"Undefined">>
                       \o (IF frame.image # NullImage THEN <<"TransferDstOptimal">> ELSE <<>>)
                       \o (IF should_render_imgui THEN <<"AttachmentOptimal">> ELSE <<>>)
                       \o <<"PresentSrcKHR">>
        IN /\ m_backbuffer_layout = "PresentSrcKHR"
           /\ Len(barriers) = Len(layouts) - 1
           /\ \A n \in 1 .. Len(barriers) :
                 /\ barriers[n].oldLayout = layouts[n]
                 /\ barriers[n].newLayout = layouts[n + 1]

\* C5 witness: a later frame with a frame image and ImGui is at its submit
C5_Witness ==
    /\ pc = "r_submit" /\ frame.image # NullImage /\ should_render_imgui
    /\ m_frame_index = 1 /\ Len(barriers) = 3

\* C6: the scratch buffers handed out for frame index i since next_frame
\* last reset slot i are pairwise distinct, and no buffer handed out for
\* frame index i was ever handed out for another frame index.
C6_ScratchBuffersDistinct ==
    \A i \in Slots :
       /\ \A m, n \in 1 .. Len(handed[i]) : m # n => handed[i][m] # handed[i][n]
       /\ \A j \in Slots \ {i} : ever[i] \cap ever[j] = {}

\* C6 witness: the first buffer, handed out for frame index 0 before the
\* second was handed out for frame index 1, is handed out again followed
\* by another after next_frame has reset slot 0
C6_Witness ==
    /\ pc = "idle" /\ m_frame_index = 0 /\ m_current_cmd = 0
    /\ Len(handed[0]) = 2 /\ handed[0][1] = 1 /\ 2 \in ever[1]

\* the descriptor sets allocated from a pool of slot i are fewer in the
\* next state, or the pool is gone
SetsFreed(i) ==
    \E p \in 1 .. Len(m_descriptor_allocators[i].m_pools) :
       \/ Len(m_descriptor_allocators'[i].m_pools) < p
       \/ m_descriptor_allocators'[i].m_pools[p] < m_descriptor_allocators[i].m_pools[p]

\* C7: descriptor sets of slot i are freed only by a next_frame that runs
\* while the frame index is i; every other step leaves the sets of every
\* slot allocated.
C7_SetsLiveUntilNextFrame ==
    [][\A i \in Slots :
          SetsFreed(i) => /\ pc = "idle" /\ pc' = "idle"
                          /\ m_frame_index = i /\ m_frame_index' = i
                          /\ lastCall'.op = "next_frame" /\ lastCall'.ret = "ok"
                          /\ m_current_cmd' = i]_vars

\* C7 witness: next_frame has just reset the used pools of slot 0 while
\* the sets allocated for slot 1 are still allocated
C7_Witness ==
    /\ lastCall.op = "next_frame" /\ lastCall.ret = "ok" /\ m_frame_index = 0
    /\ m_descriptor_allocators[0].m_pools = <<0, 0>>
    /\ m_descriptor_allocators[1].m_pools # <<>>
    /\ m_descriptor_allocators[1].m_pools[1] > 0

\* end_render has just recorded its barriers into a recording command
\* buffer, and the image render_target() returns exists
EndRenderRecorded ==
    /\ lastCall.op = "end_render" /\ lastCall.ret = "recorded"
    /\ RenderPass_render_target(m_targets).image \in DOMAIN image_layout

\* render() has recorded its blit of a frame image that exists
FrameBlitted ==
    /\ pc \in {"r_lock2", "r_submit", "r_present", "r_finish"}
    /\ has_frame(frame) /\ frame.image \in DOMAIN image_layout

\* C8 as stated: after end_render the image render_target() returns is in
\* ShaderReadOnlyOptimal, the old layout of render()'s first blit barrier,
\* and render() leaves the frame image in ShaderReadOnlyOptimal.
C8_TargetShaderReadOnly ==
    /\ EndRenderRecorded =>
          LET image == RenderPass_render_target(m_targets).image
          IN /\ image_layout[image] = "ShaderReadOnlyOptimal"
             /\ blit_to_backbuffer(image)[1].oldLayout = image_layout[image]
    /\ FrameBlitted => image_layout[frame.image] = "ShaderReadOnlyOptimal"

\* C8 amended: the same when render_target() is the resolve or the colour
\* target, or the depth target of a pass whose depth_store_op is eStore
\* (for a depth-only pass with another store op end_render records no
\* barrier).
C8_TargetShaderReadOnlyIfStored ==
    /\ (/\ EndRenderRecorded
        /\ \/ RenderPass_render_target(m_targets).image[1] \in {"resolve", "color"}
           \/ depth_store_op = "eStore") =>
          LET image == RenderPass_render_target(m_targets).image
          IN /\ image_layout[image] = "ShaderReadOnlyOptimal"
             /\ blit_to_backbuffer(image)[1].oldLayout = image_layout[image]
    /\ FrameBlitted => image_layout[frame.image] = "ShaderReadOnlyOptimal"

\* C8 witness: render() has blitted the resolve target of a multisampled
\* pass that end_render left in ShaderReadOnlyOptimal
C8_Witness ==
    /\ pc = "r_lock2" /\ frame.image = <<"resolve", 1, 0>>
    /\ m_targets.resolve = frame.image
    /\ frame.image \in DOMAIN image_layout /\ m_targets.depth \in DOMAIN image_layout
    /\ image_layout[m_targets.depth] = "ShaderReadOnlyOptimal"

Threads == {RenderThread} \cup Submitters

\* the thread is at one of the queue operations: render's acquire, submit
\* or present, or queue_submit's submit
InQueueOp(th) ==
    IF th = RenderThread THEN pc \in {"r_acquire", "r_submit", "r_present"}
    ELSE spc[th].pc = "q_submit"

\* the step the holder of the mutex takes next
HolderStep(th) ==
    IF th = RenderThread THEN RenderAcquire \/ RenderSubmit \/ RenderPresent
    ELSE QueueSubmit(th)

\* C9: a thread is at a queue operation only with the queue mutex held,
\* so no two threads are at one at the same time; the render thread does
\* not hold the mutex where it recreates the swapchain (at the start of
\* render, after an out-of-date acquire, after a failed present) nor
\* where it locks; and whoever holds the mutex can take its next step,
\* which releases it.
C9_QueueMutex ==
    /\ \A th \in Threads : InQueueOp(th) <=> m_queue_mutex = th
    /\ \A a, b \in Threads : (InQueueOp(a) /\ InQueueOp(b)) => a = b
    /\ pc \in {"idle", "r_wait", "r_lock", "r_record", "r_out_of_date", "r_lock2", "r_finish"}
          => m_queue_mutex # RenderThread
    /\ \A th \in Threads : m_queue_mutex = th => ENABLED HolderStep(th)

\* C9 witness: the render thread presents with the mutex held while one
\* submitter waits for the mutex and the other for its fence
C9_Witness ==
    /\ pc = "r_present" /\ m_queue_mutex = RenderThread
    /\ \E t, u \in Submitters :
          /\ spc[t].pc = "q_lock" /\ spc[u].pc = "q_wait"
          /\ \E s \in submitted : s.owner = u

\* C10: after set_present_mode(desired) has returned true, the present
\* mode get_present_mode() reports is desired and the swapchain in use, if
\* there is one, was created with it.
C10_PresentModeApplied ==
    (lastCall.op = "set_present_mode" /\ lastCall.ret = "true") =>
        /\ m_swapchain.m_info.presentMode = lastCall.arg
        /\ m_swapchain.m_swapchain.created =>
              m_swapchain.m_swapchain.presentMode = lastCall.arg

\* C11: the supported present modes are all in present_modes_v, and
\* set_present_mode with a mode that is not supported returns false and
\* leaves the Swapchain (its create info and present mode, the swapchain
\* and its images, the held image index) as it was.
C11_UnsupportedModeRefused ==
    /\ [](m_present_modes \subseteq present_modes_v)
    /\ [][\A desired \in DesiredModes :
             (desired \notin m_present_modes /\ SetPresentMode(desired))
                => (lastCall'.ret = "false" /\ m_swapchain' = m_swapchain)]_vars

\* C11 witness: in the second frame, on a surface that supports Fifo only,
\* set_present_mode(Mailbox) has returned false with a swapchain in use
C11_Witness ==
    /\ lastCall.op = "set_present_mode" /\ lastCall.ret = "false"
    /\ lastCall.arg = "Mailbox" /\ m_present_modes = {"Fifo"}
    /\ m_swapchain.m_swapchain.created /\ m_frame_index = 1

\* C12 as stated: a recreate with a non-zero extent throws exactly when
\* the image count it would request is at most KVF_RESOURCE_BUFFERING, and
\* then the swapchain is the one there was; otherwise it creates a
\* swapchain with that count, which is at least KVF_RESOURCE_BUFFERING + 1
\* and, when the surface's maxImageCount >= minImageCount, within
\* [minImageCount, maxImageCount].
C12_RecreateImageCount ==
    [][\A caps \in SurfaceCapabilities, framebuffer \in Extents,
          present_mode \in DesiredModes \cup {NoMode}, driver \in DriverResults :
          (~IsZero(framebuffer)
             /\ SwapchainRecreate(caps, framebuffer, present_mode, driver)) =>
             /\ lastCall'.ret \in {"throw", "ok"}
             /\ lastCall'.ret = "throw" <=> lastCall'.val <= RESOURCE_BUFFERING
             /\ lastCall'.ret = "throw" =>
                   m_swapchain'.m_swapchain = m_swapchain.m_swapchain
             /\ lastCall'.ret = "ok" =>
                   /\ m_swapchain'.m_swapchain.created
                   /\ m_swapchain'.m_swapchain.minImageCount = lastCall'.val
                   /\ lastCall'.val >= RESOURCE_BUFFERING + 1
                   /\ caps.maxImageCount >= caps.minImageCount =>
                         lastCall'.val \in caps.minImageCount .. caps.maxImageCount]_vars

\* C12 amended: a recreate with a non-zero extent throws exactly when the
\* image count it would request is at most KVF_RESOURCE_BUFFERING or the
\* driver fails; in the first case the swapchain is the one there was; in
\* the second the count requested is as in the third, and the swapchain is
\* null (null handle returned) or already the new one (images not
\* returned); otherwise it creates a swapchain with that count, at least
\* KVF_RESOURCE_BUFFERING + 1 and, when the surface's maxImageCount >=
\* minImageCount, within [minImageCount, maxImageCount].
C12_RecreateImageCountOrDriver ==
    [][\A caps \in SurfaceCapabilities, framebuffer \in Extents,
          present_mode \in DesiredModes \cup {NoMode}, driver \in DriverResults :
          (~IsZero(framebuffer)
             /\ SwapchainRecreate(caps, framebuffer, present_mode, driver)) =>
             /\ lastCall'.ret \in {"throw", "ok"}
             /\ lastCall'.ret = "throw" <=>
                   (lastCall'.val <= RESOURCE_BUFFERING \/ driver # "ok")
             /\ lastCall'.val <= RESOURCE_BUFFERING =>
                   m_swapchain'.m_swapchain = m_swapchain.m_swapchain
             /\ lastCall'.val > RESOURCE_BUFFERING =>
                   /\ driver = "no_swapchain" => ~m_swapchain'.m_swapchain.created
                   /\ driver # "no_swapchain" =>
                         /\ m_swapchain'.m_swapchain.created
                         /\ m_swapchain'.m_swapchain.minImageCount = lastCall'.val
                   /\ lastCall'.val >= RESOURCE_BUFFERING + 1
                   /\ caps.maxImageCount >= caps.minImageCount =>
                         lastCall'.val \in caps.minImageCount .. caps.maxImageCount]_vars

\* C12 witness: a recreate on a surface that allows enough images has
\* thrown because the driver did not return the images; the new swapchain,
\* with a count above KVF_RESOURCE_BUFFERING, is already in place
C12_Witness ==
    /\ lastCall.op = "recreate" /\ lastCall.ret = "throw"
    /\ lastCall.val = min_images_v + 1
    /\ m_swapchain.m_swapchain.created
    /\ m_swapchain.m_swapchain.minImageCount = lastCall.val

\* C13: is_intersecting(a, b) is true exactly when the rects a and b have
\* a point in common, and is_intersecting(b, a) is the same.
C13_IsIntersecting ==
    rect_call.op = "is_intersecting" =>
        /\ rect_call.ret <=>
              \E point \in Points : /\ Rect_contains(rect_call.a, point)
                                    /\ Rect_contains(rect_call.b, point)
        /\ rect_call.ret <=> is_intersecting(rect_call.b, rect_call.a)

\* C14: the rect from_size(size, center) returns has the size size and the
\* centre center.
C14_FromSize ==
    rect_call.op = "from_size" =>
        /\ Rect_size(rect_call.ret) = rect_call.size
        /\ Rect_center(rect_call.ret) = rect_call.center

\* the positions of render() before it resets the fence, and the ways it
\* returns without submitting
BeforeReset == {"idle", "r_wait", "r_lock", "r_acquire", "r_out_of_date"}
NotSubmitted == {"no_cmd", "zero_extent", "out_of_date"}

\* C15: a render call that returns without submitting (no current command
\* buffer, a zero framebuffer extent, an out-of-date acquire) has only been
\* at positions before the fence reset, where no step changes the frame
\* index, resets a fence, submits or presents; and when it has returned no
\* swapchain image is held.
C15_NoSubmitNoEffect ==
    /\ [][(pc \in BeforeReset =>
             /\ m_frame_index' = m_frame_index
             /\ \A i \in Slots : m_syncs[i].drawn => m_syncs'[i].drawn
             /\ submitted' \subseteq submitted
             /\ pi' = NoPresentInfo)]_vars
    /\ [][(pc' \in BeforeReset \ {"idle"} => pc \in BeforeReset)]_vars
    /\ [][(\A f \in {NullTarget, AppTarget} :
             RenderBegin(f) =>
                /\ lastCall'.ret \in NotSubmitted <=> pc' = "idle"
                /\ lastCall'.ret = "no_cmd" <=> m_current_cmd = NoSlot
                /\ lastCall'.ret = "zero_extent" <=>
                      (m_current_cmd # NoSlot /\ IsZero(fb)))]_vars
    /\ [][((lastCall'.ret = "out_of_date" /\ lastCall.ret # "out_of_date") =>
             (pc = "r_out_of_date" /\ pc' = "idle" /\ ~acquired))]_vars
    /\ []((lastCall.op = "render" /\ lastCall.ret \in NotSubmitted) =>
             /\ pc = "idle"
             /\ m_swapchain.m_image_index = NoImage
             /\ pi = NoPresentInfo)

\* C15 witness: render has returned for an out-of-date acquire in the
\* second frame, after the first frame was submitted
C15_Witness ==
    /\ lastCall.op = "render" /\ lastCall.ret = "out_of_date"
    /\ pc = "idle" /\ m_frame_index = 1
    /\ m_command_buffers[0].vk = "executable"
    /\ \A i \in Slots : m_syncs[i].drawn

C17_NoAssertInTransition ==
    \A n \in 1 .. Len(barriers) :
       ~transition_backbuffer_asserts(barriers[n].oldLayout, barriers[n].newLayout)

\* C17 witness: render has made its three transitions, from Undefined,
\* TransferDstOptimal and AttachmentOptimal
C17_Witness ==
    /\ pc = "r_present" /\ Len(barriers) = 3
    /\ barriers[1].oldLayout = "Undefined"
    /\ barriers[2].oldLayout = "TransferDstOptimal"
    /\ barriers[3].oldLayout = "AttachmentOptimal"
    /\ barriers[3].newLayout = "PresentSrcKHR"

\* C18: in a submitting render for slot i with image k, the semaphore given
\* to the acquire is draw[i]; the submission is of command buffer i, waits
\* for that semaphore, signals the present semaphore of image k and the
\* fence drawn[i]; the present, made only after the submission, is of
\* image k and waits for the present semaphore of image k.
C18_SubmitPresentSemaphores ==
    /\ [](pc \in {"r_record", "r_lock2", "r_submit", "r_present", "r_finish"} =>
             signal = m_frame_index)
    /\ [](pc \in {"r_lock2", "r_submit", "r_present", "r_finish"} =>
             /\ si.cmd = m_frame_index
             /\ si.wait = signal
             /\ si.signal \in ImageIndices)
    /\ [](pc \in {"r_lock2", "r_submit", "r_present"} =>
             si.signal = m_swapchain.m_image_index)
    /\ [][((pc = "r_submit" /\ pc' = "r_present") =>
             LET s == [cmd |-> m_frame_index, wait |-> signal,
                       fence |-> m_frame_index, owner |-> RenderThread]
             IN s \notin submitted /\ submitted' = submitted \cup {s})]_vars
    /\ [][(pc' = "r_present" => pc \in {"r_submit", "r_present"})]_vars
    /\ [][(pi' # pi => (pc = "r_present" \/ pi' = NoPresentInfo))]_vars
    /\ [](pc = "r_finish" => (pi.image = si.signal /\ pi.wait = si.signal))
    /\ [](pc # "r_finish" => pi = NoPresentInfo)

\* C18 witness: the second frame, with the last image, has been submitted
\* and presented
C18_Witness ==
    /\ pc = "r_finish" /\ m_frame_index = 1
    /\ si = [cmd |-> 1, wait |-> 1, signal |-> min_images_v - 1]
    /\ pi = [image |-> min_images_v - 1, wait |-> min_images_v - 1]
    /\ \E s \in submitted : s.cmd = 1 /\ s.fence = 1 /\ s.wait = 1

\* C19: the constructor begins an ImGui frame, and from then on no ImGui
\* frame is begun while one is open or ended when none is open, whatever
\* the order of next_frame and render calls; a frame is open exactly when
\* DearImGui's state is eEndFrame.
C19_ImGuiFramesAlternate ==
    /\ imgui_frame.open
    /\ [](~imgui_frame.misuse)
    /\ [](imgui_frame.open <=> m_imgui = "eEndFrame")

\* C19 witness: render was called again with no next_frame after a render
\* of the first frame, with no ImGui frame open
C19_Witness ==
    /\ lastCall.op = "render" /\ lastCall.ret = "no_cmd"
    /\ pc = "idle" /\ m_frame_index = 1
    /\ ~imgui_frame.open /\ m_imgui = "eNewFrame"

\* C20: no render command buffer is begun while recording, ended while not
\* recording, or submitted unless executable; a successful next_frame
\* makes the command buffer of the frame index current and recording, a
\* recording is ended only by render ending the current command buffer, the
\* current command buffer is changed only by next_frame and dropped only
\* by render, and render submits the current command buffer.
C20_CommandBufferLifecycle ==
    /\ [](\A i \in Slots :
             /\ m_command_buffers[i].vk # "misused"
             /\ m_command_buffers[i].recording <=> m_command_buffers[i].vk = "recording")
    /\ [][(\A i \in Slots :
             (m_command_buffers[i].recording /\ ~m_command_buffers'[i].recording) =>
                (pc \in {"r_record", "r_out_of_date"} /\ i = m_current_cmd))]_vars
    /\ [][((NextFrame /\ lastCall'.ret = "ok") =>
             /\ m_current_cmd' = m_frame_index
             /\ m_command_buffers'[m_frame_index].recording)]_vars
    /\ [][(m_current_cmd' # m_current_cmd =>
             \/ m_current_cmd' = NoSlot /\ pc \in {"r_out_of_date", "r_finish"}
             \/ lastCall'.op = "next_frame" /\ lastCall'.ret = "ok" /\ pc = "idle")]_vars
    /\ [][((pc = "r_submit" /\ pc' = "r_present") =>
             /\ si.cmd = m_current_cmd
             /\ m_command_buffers[si.cmd].vk = "executable"
             /\ m_command_buffers'[si.cmd].vk = "pending")]_vars

\* C20 witness: the command buffers of both the first and the second frame
\* are pending, the second one just submitted
C20_Witness ==
    /\ pc = "r_present" /\ m_frame_index = 1
    /\ m_command_buffers[0].vk = "pending" /\ m_command_buffers[1].vk = "pending"
    /\ ~m_command_buffers[1].recording

\* the sets allocated from pool p (counted from 0) of the allocator a, 0
\* when the pool does not exist
SetsIn(a, p) == IF p < Len(a.m_pools) THEN a.m_pools[p + 1] ELSE 0

\* C21: allocate returns false and changes nothing when layouts is empty
\* or the lengths differ; otherwise a first try that succeeds allocates
\* from the current pool; only an out-of-pool-memory result advances the
\* pool index, by exactly one, with that pool created, and one retry
\* decides the result; any other failure returns false with the pool
\* index unchanged and no set allocated. No step destroys a pool, and
\* next_frame's reset sets the pool index of its slot to 0.
C21_AllocateRetriesOnce ==
    /\ [][(\A n_out, n_layouts \in 0 .. MaxLayouts :
            \A r1, r2 \in {"eSuccess", "eErrorOutOfPoolMemory", "eErrorOutOfHostMemory"} :
              AllocateSets(n_out, n_layouts, r1, r2) =>
                LET a == m_descriptor_allocators[m_frame_index]
                    b == m_descriptor_allocators'[m_frame_index]
                    ret == lastCall'.ret = "true"
                    others == \A p \in 0 .. MaxPools :
                                 p # b.m_index => SetsIn(b, p) = SetsIn(a, p)
                IN /\ \A j \in Slots \ {m_frame_index} :
                        m_descriptor_allocators'[j] = m_descriptor_allocators[j]
                   /\ (n_layouts = 0 \/ n_out # n_layouts) => (b = a /\ ~ret)
                   /\ (n_layouts # 0 /\ n_out = n_layouts) =>
                        /\ Len(b.m_pools) > b.m_index
                        /\ others
                        /\ r1 = "eSuccess" =>
                              /\ ret /\ b.m_index = a.m_index
                              /\ SetsIn(b, b.m_index) = SetsIn(a, a.m_index) + n_layouts
                        /\ r1 = "eErrorOutOfPoolMemory" =>
                              /\ b.m_index = a.m_index + 1
                              /\ ret <=> r2 = "eSuccess"
                              /\ SetsIn(b, b.m_index) = SetsIn(a, b.m_index)
                                    + (IF ret THEN n_layouts ELSE 0)
                              /\ SetsIn(b, a.m_index) = SetsIn(a, a.m_index)
                        /\ r1 = "eErrorOutOfHostMemory" =>
                              /\ ~ret /\ b.m_index = a.m_index
                              /\ SetsIn(b, b.m_index) = SetsIn(a, a.m_index))]_vars
    /\ [][(\A i \in Slots : Len(m_descriptor_allocators'[i].m_pools)
                                >= Len(m_descriptor_allocators[i].m_pools))]_vars
    /\ [][((NextFrame /\ lastCall'.ret = "ok") =>
              /\ m_descriptor_allocators'[m_frame_index].m_index = 0
              /\ \A p \in 0 .. MaxPools :
                    SetsIn(m_descriptor_allocators'[m_frame_index], p) = 0)]_vars

\* C21 witness: a first try ran out of pool memory in a pool with one set,
\* and the retry allocated two sets from the pool created for it
C21_Witness ==
    /\ lastCall.op = "allocate_sets" /\ lastCall.ret = "true"
    /\ m_descriptor_allocators[m_frame_index].m_index = 1
    /\ m_descriptor_allocators[m_frame_index].m_pools = <<1, 2>>

\* C22: the assertion at the top of DescriptorAllocator::allocate (device
\* set, pool sizes not empty, sets_per_pool > 0) holds at every
\* allocate_sets call on a device constructed from any
\* RenderDeviceCreateInfo.
C22_AllocatePrecondition ==
    lastCall.op = "allocate_sets" => lastCall.ret # "assert"

\* C23: in every framebuffer a resolve image exists only if a colour image
\* exists and the sample count is above 1; the same holds of the targets
\* begin_render and end_render use, so their assertion never fails.
C23_ResolveOnlyWithColor ==
    /\ \A i \in Slots :
          m_framebuffers[i].resolve.image # NullImage =>
             (m_framebuffers[i].color.image # NullImage /\ m_samples # "e1")
    /\ m_targets.resolve # NullImage => m_targets.color # NullImage
    /\ RenderPass_resolve_asserts(m_targets)
    /\ lastCall.op \in {"begin_render", "end_render"} => lastCall.ret # "assert"

\* C23 witness: set_color_target of a multisampled pass threw at the
\* resolve image of the second framebuffer, and a render was begun and
\* ended with the colour and resolve images of the first
C23_Witness ==
    /\ m_samples = "e4"
    /\ lastCall.op = "end_render" /\ lastCall.ret = "recorded"
    /\ m_targets.resolve = <<"resolve", 0, 0>> /\ m_targets.color = <<"color", 0, 0>>
    /\ m_framebuffers[1].color.image # NullImage
    /\ m_framebuffers[1].resolve.image = NullImage

\* C24: begin_render(cmd, extent) with at least one target leaves every
\* existing attachment of the framebuffer of the current frame index with
\* the requested extent, zero dimensions replaced by 1, and the
\* framebuffers of the other frame indices untouched; with no target it
\* changes nothing and records nothing.
C24_BeginRenderResizes ==
    [][(\A command_buffer \in CommandBuffers, extent \in PassExtents,
          fail \in ResizeFailures :
          BeginRender(command_buffer, extent, fail) =>
             IF has_color_target(m_framebuffers) \/ has_depth_target(m_framebuffers)
             THEN /\ \A k \in {"color", "resolve", "depth"} :
                       m_framebuffers'[m_frame_index][k].image # NullImage =>
                          m_framebuffers'[m_frame_index][k].extent
                             = <<Max(extent[1], 1), Max(extent[2], 1)>>
                  /\ \A j \in Slots \ {m_frame_index} :
                       m_framebuffers'[j] = m_framebuffers[j]
             ELSE /\ UNCHANGED passVars
                  /\ UNCHANGED image_layout)]_vars


\* C25: a constructed vma::Buffer always has 1 <= size <= capacity; no
\* call lowers its capacity; a resize to at most the capacity keeps the
\* underlying buffer and its bytes and changes only the size; a resize beyond
\* the capacity whose allocation succeeds makes size and capacity that size;
\* one whose allocation fails returns false and leaves the Buffer as it was.
C25_BufferSizeCapacity ==
    /\ [](vma_buffer.m_api =>
            /\ 1 <= vma_buffer.m_size
            /\ vma_buffer.m_size <= vma_buffer.m_capacity)
    /\ [][(vma_buffer.m_api => vma_buffer'.m_capacity >= vma_buffer.m_capacity)]_vars
    /\ [][(\A size \in 0 .. MaxCapacity, ok \in BOOLEAN :
            BufferResize(size, ok) =>
              LET sz == IF size = 0 THEN 1 ELSE size IN
                /\ sz <= vma_buffer.m_capacity =>
                     /\ vma_call'.ret = "true"
                     /\ vma_buffer' = [vma_buffer EXCEPT !.m_size = sz]
                /\ (sz > vma_buffer.m_capacity /\ ok) =>
                     /\ vma_call'.ret = "true"
                     /\ vma_buffer'.m_capacity = sz
                     /\ vma_buffer'.m_size = sz
                     /\ vma_buffer'.m_buffer # vma_buffer.m_buffer
                /\ (sz > vma_buffer.m_capacity /\ ~ok) =>
                     /\ vma_call'.ret = "false"
                     /\ vma_buffer' = vma_buffer)]_vars

\* C25 witness: a Buffer that was re-allocated for a larger size has been
\* resized to less than its capacity
C25_Witness ==
    /\ vma_call = [op |-> "resize", ret |-> "true"]
    /\ vma_buffer.m_buffer = 2
    /\ vma_buffer.m_size = 1
    /\ vma_buffer.m_capacity = 2


\* C26: while the staging buffer can be created and the copy is submitted,
\* write_in_place(data, offset) returns false and leaves the Buffer as it
\* was when offset + Len(data) exceeds the size, returns true and leaves it
\* as it was when data is empty and offset is at most the size, and
\* otherwise returns true having written exactly the bytes
\* [offset, offset + Len(data)), every other byte, the size and the capacity
\* unchanged.
C26_WriteInPlaceBounds ==
    [][(\A data \in BufferWrites, offset \in DeviceSizes, ub \in UndefinedOutcomes :
          BufferWriteInPlace(data, offset, TRUE, TRUE, ub) =>
            IF offset + Len(data) > vma_buffer.m_size
            THEN vma_call'.ret = "false" /\ vma_buffer' = vma_buffer
            ELSE IF data = <<>>
            THEN vma_call'.ret = "true" /\ vma_buffer' = vma_buffer
            ELSE /\ vma_call'.ret = "true"
                 /\ vma_buffer' =
                      [vma_buffer EXCEPT
                         !.bytes = [k \in 1 .. Len(vma_buffer.bytes) |->
                                      IF k \in (offset + 1) .. (offset + Len(data))
                                      THEN data[k - offset]
                                      ELSE vma_buffer.bytes[k]]])]_vars


\* C27: in every state the Image reaches, resize_and_overwrite(layers)
\* returns false, records nothing and leaves the Image (payload, extent, mip
\* levels, layout) as it is when the Image has no payload, when the number
\* of layers passed is not the Image's layer count, or when some layer's
\* size is not the first layer's or its byte length is not
\* width * height * 4.
C27_OverwriteRejectsLayers ==
    \A size \in SmallSizes, n \in 0 .. 2, flaw \in BitmapFlaws,
       failure \in ImageFailures :
       LET layers == Bitmaps(size, n, flaw)
           rejected ==
             \/ vma_image.m_image = 0
             \/ Len(layers) # vma_image.layers
             \/ \E k \in 1 .. Len(layers) :
                   \/ layers[k].size # layers[1].size
                   \/ layers[k].bytes # layers[k].size[1] * layers[k].size[2] * 4
       IN rejected =>
            vma_Image_resize_and_overwrite(vma_image, layers, failure) =
              [img |-> vma_image, ret |-> "false", cmds |-> <<>>]

\* C27 witness: a two-layer Image that was moved to General has rejected
\* two layers of which the second has a byte too many
C27_Witness ==
    /\ vma_call.op = "resize_and_overwrite"
    /\ vma_call.arg = <<2, "bytes">>
    /\ vma_call.ret = "false"
    /\ vma_image.m_image = 1
    /\ vma_image.layers = 2
    /\ vma_image.m_layout = "General"


\* the barriers among the commands that were recorded through
\* Image::transition
transitions_in(cmds) ==
    SelectSeq(cmds, LAMBDA e : e.c.cmd = "barrier" /\ e.c.transition)

\* C28: after a resize_and_overwrite that returned true and wrote layer
\* data, get_layout() is ShaderReadOnlyOptimal if the layout before was
\* Undefined or the call re-allocated the Image, and otherwise the layout
\* the Image had before the call; and after every call get_layout() is the
\* newLayout of the last barrier the call recorded through
\* Image::transition, else Undefined if the call re-allocated the Image,
\* else what it was.
C28_LayoutAfterOverwrite ==
    /\ [][((/\ vma_call'.op = "resize_and_overwrite"
            /\ vma_call'.ret = "true"
            /\ vma_call'.cmds # <<>>) =>
             vma_image'.m_layout =
               IF \/ vma_image.m_layout = "Undefined"
                  \/ vma_image'.m_image # vma_image.m_image
               THEN "ShaderReadOnlyOptimal"
               ELSE vma_image.m_layout)]_vars
    /\ [][(LET recorded == transitions_in(vma_call'.cmds) IN
             vma_image'.m_layout =
               IF recorded # <<>> THEN recorded[Len(recorded)].c.newLayout
               ELSE IF vma_image'.m_image # vma_image.m_image THEN "Undefined"
               ELSE vma_image.m_layout)]_vars

\* C28 witness: an Image that was in General has been overwritten with
\* layer data and is in General again
C28_Witness ==
    /\ vma_call.op = "resize_and_overwrite"
    /\ vma_call.ret = "true"
    /\ vma_call.cmds # <<>>
    /\ vma_image.m_layout = "General"


\* C29: of the commands a resize_and_overwrite recorded, every barrier
\* names as oldLayout Undefined or the layout all the levels it covers are
\* in when it executes; every blit reads a level that is in
\* TransferSrcOptimal and writes a level that is in TransferDstOptimal; and
\* when the last command, a barrier, executes, all levels are in one layout
\* (TransferSrcOptimal with more than one level, TransferDstOptimal with
\* one), which is its oldLayout.
C29_BarrierLayouts ==
    (vma_call.op = "resize_and_overwrite" /\ vma_call.cmds # <<>>) =>
      LET cmds == vma_call.cmds
          last == cmds[Len(cmds)]
          common == IF vma_image.m_mip_levels > 1 THEN "TransferSrcOptimal"
                    ELSE "TransferDstOptimal"
      IN /\ \A i \in 1 .. Len(cmds) :
               LET e == cmds[i] IN
                 /\ e.c.cmd = "barrier" =>
                      \/ e.c.oldLayout = "Undefined"
                      \/ \A l \in DOMAIN e.before :
                            barrier_covers(e.c, l) => e.before[l] = e.c.oldLayout
                 /\ e.c.cmd = "blit" =>
                      /\ e.c.srcLayout = "TransferSrcOptimal"
                      /\ e.c.dstLayout = "TransferDstOptimal"
                      /\ e.before[e.c.src + 1] = e.c.srcLayout
                      /\ e.before[e.c.dst + 1] = e.c.dstLayout
         /\ last.c.cmd = "barrier"
         /\ DOMAIN last.before = 1 .. vma_image.m_mip_levels
         /\ \A l \in DOMAIN last.before : last.before[l] = common
         /\ last.c.oldLayout = common

\* C29 witness: an Image of three mip levels has been overwritten, with
\* two blits among the commands
C29_Witness ==
    /\ vma_call.op = "resize_and_overwrite"
    /\ vma_call.ret = "true"
    /\ vma_image.m_mip_levels = 3
    /\ Len(SelectSeq(vma_call.cmds, LAMBDA e : e.c.cmd = "blit")) = 2


\* the blits among the commands, in the order recorded
blits_in(cmds) == SelectSeq(cmds, LAMBDA e : e.c.cmd = "blit")

\* C30: for every extent with sides in 1 .. MaxDim, compute_mip_levels is
\* the L with 2^(L-1) <= max(width, height) < 2^L, and a mip-mapped Image
\* of that extent has L levels; an overwrite of an Image records
\* m_mip_levels - 1 blits, the k-th from level k - 1 to level k, from the
\* extent of level k - 1 to (max(w \div 2, 1), max(h \div 2, 1)) of it, level
\* 0 having the Image's extent; and the last level written is 1 x 1.
C30_MipLevels ==
    /\ \A extent \in MipExtents :
          LET L == compute_mip_levels(extent)
              m == IF extent[1] >= extent[2] THEN extent[1] ELSE extent[2]
          IN L >= 1 /\ 2 ^ (L - 1) <= m /\ m < 2 ^ L
    /\ (vma_image.m_image # 0 /\ vma_image.mip_mapped) =>
          vma_image.m_mip_levels = compute_mip_levels(vma_image.m_extent)
    /\ (vma_call.op = "resize_and_overwrite" /\ vma_call.cmds # <<>>) =>
          LET blits == blits_in(vma_call.cmds)
              n == Len(blits)
              src_extent(k) == IF k = 1 THEN vma_image.m_extent
                               ELSE blits[k - 1].c.dst_offset
              half(x) == IF x \div 2 >= 1 THEN x \div 2 ELSE 1
          IN /\ n = vma_image.m_mip_levels - 1
             /\ \A k \in 1 .. n :
                   /\ blits[k].c.src = k - 1
                   /\ blits[k].c.dst = k
                   /\ blits[k].c.src_offset = src_extent(k)
                   /\ blits[k].c.dst_offset =
                        <<half(src_extent(k)[1]), half(src_extent(k)[2])>>
             /\ n > 0 => blits[n].c.dst_offset = <<1, 1>>

\* C30 witness: a mip-mapped 4 x 3 Image has been overwritten, its levels
\* being 4 x 3, 2 x 1 and 1 x 1
C30_Witness ==
    /\ vma_call.op = "resize_and_overwrite"
    /\ vma_call.ret = "true"
    /\ vma_image.mip_mapped
    /\ vma_image.m_extent = <<4, 3>>
    /\ Len(blits_in(vma_call.cmds)) = 2
    /\ blits_in(vma_call.cmds)[1].c.dst_offset = <<2, 1>>


\* the place of an event among those of the destruction so far (0: not yet)
destroyed_at(e) ==
    IF \E k \in 1 .. Len(impl.events) : impl.events[k] = e
    THEN CHOOSE k \in 1 .. Len(impl.events) : impl.events[k] = e
    ELSE 0
\* a is destroyed before b, whenever b is destroyed and a held an object
destroyed_before(a, b) ==
    destroyed_at(b) # 0 =>
      /\ a \notin impl.holds
      /\ destroyed_at(a) # 0 => destroyed_at(a) < destroyed_at(b)

\* C31: while the members of a RenderDevice are destroyed, after its
\* deletion or a throwing constructor, a device-owned member is destroyed
\* only after the DeviceBlock's wait; the scratch buffers go before the
\* allocator; every device-owned member goes before the device; and the
\* device goes before the surface and the instance. When the destruction
\* is over no member holds an object.
C31_DestructionOrder ==
    /\ \A m \in DeviceOwned :
          destroyed_at(m) # 0 =>
            (destroyed_at("waitIdle") # 0 /\ destroyed_at("waitIdle") < destroyed_at(m))
    /\ destroyed_before("m_buffer_allocators", "m_allocator")
    /\ \A m \in DeviceOwned : destroyed_before(m, "m_device")
    /\ destroyed_before("m_device", "m_surface")
    /\ destroyed_before("m_device", "m_instance")
    /\ impl.phase = "destroyed" => impl.holds = {}

\* C31 witness: a device that had created descriptor pools and scratch
\* buffers has been destroyed, all eleven members in turn
C31_Witness ==
    /\ impl.phase = "destroyed"
    /\ Len(impl.events) = Len(ImplMembers)
    /\ impl.events[1] = "waitIdle"
    /\ impl.events[Len(impl.events)] = "m_instance"


\* a is inside the atlas of the given size, pad away from its border
rect_inside(a, size, pad) ==
    /\ a.lt[1] >= pad[1] /\ a.lt[2] >= pad[2]
    /\ a.lt[1] <= a.rb[1] /\ a.lt[2] <= a.rb[2]
    /\ a.rb[1] + pad[1] <= size[1] /\ a.rb[2] + pad[2] <= size[2]
\* a and b are apart by the padding, along x or along y
rects_apart(a, b, pad) ==
    \/ a.rb[1] + pad[1] <= b.lt[1] \/ b.rb[1] + pad[1] <= a.lt[1]
    \/ a.rb[2] + pad[2] <= b.lt[2] \/ b.rb[2] + pad[2] <= a.lt[2]
is_power_of_two(n) == \E e \in 0 .. 30 : n = 2 ^ e
\* what holds of an atlas whichever rectangles are looked at: they have the
\* glyphs' sizes, are inside and apart; the sides are powers of two; and the
\* atlas is empty exactly when a packed side exceeds 8192
atlas_packed(which) ==
    LET slots == ttf_call.slots
        pad == ttf_call.pad
        atlas == ttf_call.ret
        width == load_entries(slots, pad)
        height == store_pixels(slots, pad, width).height
    IN /\ atlas.empty <=> (width > 8192 \/ height > 8192)
       /\ ~atlas.empty =>
            /\ is_power_of_two(atlas.size[1]) /\ is_power_of_two(atlas.size[2])
            /\ atlas.size[1] <= 8192 /\ atlas.size[2] <= 8192
            /\ Len(atlas.rects) = Len(slots)
            /\ \A i \in which :
                  /\ atlas.rects[i].rb[1] - atlas.rects[i].lt[1] = slots[i][1]
                  /\ atlas.rects[i].rb[2] - atlas.rects[i].lt[2] = slots[i][2]
                  /\ rect_inside(atlas.rects[i], atlas.size, pad)
                  /\ \A j \in which \ {i} :
                        rects_apart(atlas.rects[i], atlas.rects[j], pad)

\* C32 as stated: the rectangles of all the glyphs of an atlas are pairwise
\* apart by the padding, at least the padding away from the border and
\* inside the bitmap; the sides are powers of two; the atlas is empty when
\* a packed side exceeds 8192.
C32_AtlasPacking ==
    ttf_call.op = "build_atlas" => atlas_packed(1 .. Len(ttf_call.slots))

\* C32 amended: the same of the rectangles of the glyphs that have pixels;
\* a glyph without pixels gets the empty rectangle at the origin.
C32_AtlasPackingOfPixels ==
    ttf_call.op = "build_atlas" =>
      /\ atlas_packed({i \in 1 .. Len(ttf_call.slots) :
                         ttf_call.slots[i][1] * ttf_call.slots[i][2] # 0})
      /\ ~ttf_call.ret.empty =>
           \A i \in 1 .. Len(ttf_call.slots) :
              ttf_call.slots[i][1] * ttf_call.slots[i][2] = 0 =>
                ttf_call.ret.rects[i] = NoRect

\* C32 witness: three glyphs with pixels were packed with a padding of one,
\* the third on a second line
C32_Witness ==
    /\ ttf_call.op = "build_atlas"
    /\ ttf_call.pad = <<1, 1>>
    /\ ~ttf_call.ret.empty
    /\ Len(ttf_call.slots) = 3
    /\ \A i \in 1 .. 3 : ttf_call.slots[i][1] * ttf_call.slots[i][2] # 0
    /\ ttf_call.ret.rects[3].lt[2] > ttf_call.ret.rects[1].rb[2]

====
